---- MODULE Spec2Model ----
(***************************************************************************)
(* Sampling/caching core of web-monitor (src/app/main.py).                 *)
(*                                                                         *)
(*  - RaplReader: energy domains discovered at construction, the           *)
(*    last_readings dictionary, the cleanup counter, and get_power_stats.  *)
(*  - The aged caches: process table, TCP connection states, SSH stats,    *)
(*    GPU identity, disk partitions.                                       *)
(*                                                                         *)
(* Time is counted in whole seconds, energy in microjoules, and a wattage  *)
(* in hundredths of a watt (round(x, 2) keeps two decimals).               *)
(***************************************************************************)
EXTENDS Integers, Sequences, FiniteSets, TLC

VARIABLES
    \* ---- RaplReader (program state)
    fs,               \* /sys/class/powercap as found by __init__
    domains,          \* self.domains
    last_readings,    \* self.last_readings : path -> <<timestamp, energy_uj>>
    cleanup_counter,  \* self.cleanup_counter
    \* ---- the last get_power_stats call
    stats,            \* the mapping it returned : name -> wattage (1/100 W)
    now,              \* its time.time()
    reads,            \* the energy files it could read : path -> energy_uj
    prev_readings,    \* last_readings when it was entered
    pruned,           \* whether its cleanup pass ran
    emitted,          \* the domains whose wattage it assigned : path -> 1/100 W
    delta,            \* the corrected de it computed : path -> microjoules
    read_before,      \* the paths read successfully in some earlier call
    calls,            \* number of get_power_stats calls so far
    \* ---- the aged caches (module globals)
    clock,                        \* time.time()
    process_cache,                \* _process_cache
    last_process_time,            \* _last_process_time
    connection_states_cache,      \* _connection_states_cache
    last_connection_states_time,  \* _last_connection_states_time
    ssh_stats_cache,              \* _ssh_stats_cache
    last_ssh_time,                \* _last_ssh_time
    gpu_info_cache,               \* _gpu_info_cache
    last_gpu_info_time,           \* _last_gpu_info_time
    disk_partitions_cache,        \* _disk_partitions_cache
    last_partitions_time,         \* _last_partitions_time
    \* ---- the last read of a cache
    watched,          \* the cache the behaviour reads
    last_read,        \* what the last read saw and did
    good,             \* per cache, the last value a computation produced
                      \* without failing
    computed_at,      \* per cache, the clock when the value it holds was
                      \* stored by a computation (Never: none stored yet)
    cache_reads,      \* number of cache reads so far
    \* ---- the host and the run (fixed in a behaviour)
    env,              \* what the operating system answers on this host
    \* ---- the server: the event loop and its handler coroutines
    running,          \* the coroutine the event loop is executing
    pc,               \* per caller, its position in its handler
    loc,              \* per caller, the locals of its handler
    result,           \* per caller, what its last collection gave
    collects,         \* collect_stats calls started so far
    \* ---- the objects of the program
    heap,             \* object id -> content (samples, cached values,
                      \* power records)
    bound,            \* per cache global, the object it is bound to
    memory_history,   \* _memory_history : ids of samples
    cpu_temp_history, \* _cpu_temp_history : ids of samples
    \* ---- history of the run
    mem_pushed,       \* every sample appended to _memory_history, in order
    temp_pushed,      \* every sample appended to _cpu_temp_history
    pristine,         \* object id -> content when the program last wrote it
    held,             \* a snapshot a consumer kept, and its content then
    session,          \* per caller, its client connection and the counts
                      \* of what its push loop has done
    \* ---- a function applied on its own
    fn                \* the function, its argument, its locals and result

raplVars == <<fs, domains, last_readings, cleanup_counter, stats, now, reads,
              prev_readings, pruned, emitted, delta, read_before, calls>>

cacheVars == <<clock, process_cache, last_process_time,
               connection_states_cache, last_connection_states_time,
               ssh_stats_cache, last_ssh_time,
               gpu_info_cache, last_gpu_info_time,
               disk_partitions_cache, last_partitions_time,
               watched, last_read, good, computed_at, cache_reads>>

serveVars == <<env, running, pc, loc, result, collects, heap, bound,
               memory_history, cpu_temp_history, mem_pushed, temp_pushed,
               pristine, held, session, fn>>

vars == <<raplVars, cacheVars, serveVars>>

(***************************************************************************)
(* Bounds of the model.                                                    *)
(***************************************************************************)
MaxCalls == 4

\* Reads of a cache in one behaviour.
MaxReads == 4

\* time.time() when the module is loaded (seconds; far beyond every
\* staleness threshold, as the epoch clock is).
StartClock == 100

\* Clock values a call may see; any order, so the clock may stand still or
\* go backwards.  62 - 2 is exactly the pruning age, 62 - 0 is beyond it.
Times == {0, 2, 62}

\* Values an energy_uj register may hold (0.1 J and 0.5 J).
Energies == {100000, 500000}

(***************************************************************************)
(* Program constants.                                                      *)
(***************************************************************************)
CleanupEvery == 300
StaleAfter == 60
MicroJoulesPerJoule == 1000000
RoundDigitsScale == 100

(***************************************************************************)
(* Dictionaries.                                                           *)
(***************************************************************************)
EmptyMap == [k \in {} |-> 0]

Put(f, k, v) == [x \in (DOMAIN f) \cup {k} |-> IF x = k THEN v ELSE f[x]]

Without(f, ks) == [x \in (DOMAIN f) \ ks |-> f[x]]

(***************************************************************************)
(* String operations of _init_domains, over the directory and name strings *)
(* the model uses.                                                         *)
(***************************************************************************)
\* "intel-rapl" in d and ":" in d
IsRaplDir(d) == d \in {"intel-rapl:0", "intel-rapl:0:0", "intel-rapl-mmio:0"}

\* path.split(":")[-1]
LastSegment(d) ==
    CASE d = "intel-rapl:0" -> "0"
      [] d = "intel-rapl:0:0" -> "0"
      [] d = "intel-rapl-mmio:0" -> "0"
      [] OTHER -> d

\* "package" in name
ContainsPackage(name) == name \in {"package-0"}

\* f"Package-{idx}"
PackageName(idx) ==
    CASE idx = "0" -> "Package-0"
      [] OTHER -> "Package-?"

DisplayName(d, name) ==
    IF ContainsPackage(name) THEN PackageName(LastSegment(d)) ELSE name

(***************************************************************************)
(* The powercap directory at construction.  A directory entry:             *)
(*   d        the entry's name                                             *)
(*   hasName  the "name" file exists;  name  its stripped content          *)
(*   hasMax   "max_energy_range_uj" exists;  maxOk  it parses as an int;   *)
(*   max      its value                                                    *)
(***************************************************************************)
Dir(d, hasName, name, hasMax, maxOk, max) ==
    [d |-> d, hasName |-> hasName, name |-> name,
     hasMax |-> hasMax, maxOk |-> maxOk, max |-> max]

FsChoices ==
    { \* no /sys/class/powercap
      [exists |-> FALSE, dirs |-> <<>>],
      \* one package and its core sub-domain
      [exists |-> TRUE,
       dirs |-> << Dir("intel-rapl", TRUE, "intel-rapl", FALSE, FALSE, 0),
                   Dir("intel-rapl:0", TRUE, "package-0", TRUE, TRUE, 1000000),
                   Dir("intel-rapl:0:0", TRUE, "core", TRUE, TRUE, 640000) >>],
      \* the MSR and the MMIO interface of the same package
      [exists |-> TRUE,
       dirs |-> << Dir("intel-rapl:0", TRUE, "package-0", TRUE, TRUE, 1000000),
                   Dir("intel-rapl-mmio:0", TRUE, "package-0", FALSE, FALSE, 0) >>],
      \* an entry without a name file, one with an unparsable range, and a
      \* domain without a range file
      [exists |-> TRUE,
       dirs |-> << Dir("intel-rapl:0", FALSE, "", TRUE, TRUE, 1000000),
                   Dir("intel-rapl-mmio:0", TRUE, "package-0", TRUE, FALSE, 0),
                   Dir("intel-rapl:0:0", TRUE, "core", FALSE, FALSE, 0) >>] }

\* One iteration of the loop over rapl_dirs: the domains list after `e`.
AddDomain(ds, e) ==
    IF ~e.hasName THEN ds
    ELSE IF e.hasMax /\ ~e.maxOk THEN ds          \* int() raises: continue
    ELSE Append(ds, [path |-> e.d,
                     name |-> DisplayName(e.d, e.name),
                     max_range |-> IF e.hasMax THEN e.max ELSE 0])

RECURSIVE ScanDirs(_, _, _)
ScanDirs(dirs, i, ds) ==
    IF i > Len(dirs) THEN ds
    ELSE ScanDirs(dirs, i + 1,
                  IF IsRaplDir(dirs[i].d) THEN AddDomain(ds, dirs[i]) ELSE ds)

InitDomains(f) ==
    IF ~f.exists THEN <<>> ELSE ScanDirs(f.dirs, 1, <<>>)

Paths(ds) == {ds[i].path : i \in 1..Len(ds)}
Names(ds) == {ds[i].name : i \in 1..Len(ds)}

(***************************************************************************)
(* get_power_stats.                                                        *)
(***************************************************************************)
\* round(x, 2) of x = (de / 1000000.0) / dt, in hundredths of a watt:
\* the nearest hundredth, a tie going to the even neighbour.  (No de and dt
\* of Energies, Times and the max ranges of FsChoices is a tie.)
Round2(de, dt) ==
    LET unit == (MicroJoulesPerJoule \div RoundDigitsScale) * dt
        q == de \div unit
        r == de % unit
    IN  IF 2 * r < unit THEN q
        ELSE IF 2 * r > unit THEN q + 1
        ELSE IF q % 2 = 0 THEN q ELSE q + 1

\* The correction applied whenever de is not positive.
CorrectedDeltaAlsoAtZero(energy_uj, last_energy, max_range) ==
    LET de == energy_uj - last_energy
    IN  IF de <= 0 THEN de + max_range ELSE de

\* de after "if de < 0: de += domain['max_range']"
CorrectedDelta(energy_uj, last_energy, max_range) ==
    LET de == energy_uj - last_energy
    IN  IF de < 0 THEN de + max_range ELSE de

\* The guard without its test of de.
ValidDeltaIgnoresDe(dt, de) == dt > 0

\* "if dt > 0 and de >= 0"
ValidDelta(dt, de) == dt > 0 /\ de >= 0

\* The age computed with its operands exchanged.
KeysToRemoveReversed(lr, t) == {p \in DOMAIN lr : lr[p][1] - t > StaleAfter}

\* The cleanup pass: the keys whose reading is older than 60 s.
KeysToRemove(lr, t) == {p \in DOMAIN lr : t - lr[p][1] > StaleAfter}

\* An iteration that treats a missing prior reading as (0, 0).
DomainStepNoPriorCheck(acc, dom, rd, t) ==
    IF dom.path \notin DOMAIN rd THEN acc
    ELSE
      LET energy_uj == rd[dom.path]
          has == dom.path \in DOMAIN acc.lr
          prior == IF has THEN acc.lr[dom.path] ELSE <<0, 0>>
          dt == t - prior[1]
          de == CorrectedDelta(energy_uj, prior[2], dom.max_range)
          emit == ValidDelta(dt, de)
      IN  [st |-> IF emit THEN Put(acc.st, dom.name, Round2(de, dt)) ELSE acc.st,
           lr |-> Put(acc.lr, dom.path, <<t, energy_uj>>),
           em |-> IF emit THEN Put(acc.em, dom.path, Round2(de, dt)) ELSE acc.em,
           de |-> IF has THEN Put(acc.de, dom.path, de) ELSE acc.de]

\* An iteration that stores the reading only when it assigned a wattage or
\* had no prior reading.
DomainStepStoresOnEmit(acc, dom, rd, t) ==
    IF dom.path \notin DOMAIN rd THEN acc
    ELSE
      LET energy_uj == rd[dom.path]
          has == dom.path \in DOMAIN acc.lr
          dt == t - acc.lr[dom.path][1]
          de == CorrectedDelta(energy_uj, acc.lr[dom.path][2], dom.max_range)
          emit == has /\ ValidDelta(dt, de)
      IN  [st |-> IF emit THEN Put(acc.st, dom.name, Round2(de, dt)) ELSE acc.st,
           lr |-> IF emit \/ ~has
                  THEN Put(acc.lr, dom.path, <<t, energy_uj>>) ELSE acc.lr,
           em |-> IF emit THEN Put(acc.em, dom.path, Round2(de, dt)) ELSE acc.em,
           de |-> IF has THEN Put(acc.de, dom.path, de) ELSE acc.de]

\* An iteration that forgets the prior reading of a domain it cannot read.
DomainStepForgetsUnreadable(acc, dom, rd, t) ==
    IF dom.path \notin DOMAIN rd
    THEN [acc EXCEPT !.lr = Without(acc.lr, {dom.path})]
    ELSE
      LET energy_uj == rd[dom.path]
          has == dom.path \in DOMAIN acc.lr
          dt == t - acc.lr[dom.path][1]
          de == CorrectedDelta(energy_uj, acc.lr[dom.path][2], dom.max_range)
          emit == has /\ ValidDelta(dt, de)
      IN  [st |-> IF emit THEN Put(acc.st, dom.name, Round2(de, dt)) ELSE acc.st,
           lr |-> Put(acc.lr, dom.path, <<t, energy_uj>>),
           em |-> IF emit THEN Put(acc.em, dom.path, Round2(de, dt)) ELSE acc.em,
           de |-> IF has THEN Put(acc.de, dom.path, de) ELSE acc.de]

\* An iteration that files the reading under the domain's display name.
DomainStepKeyedByName(acc, dom, rd, t) ==
    IF dom.path \notin DOMAIN rd THEN acc
    ELSE
      LET energy_uj == rd[dom.path]
          has == dom.path \in DOMAIN acc.lr
          dt == t - acc.lr[dom.path][1]
          de == CorrectedDelta(energy_uj, acc.lr[dom.path][2], dom.max_range)
          emit == has /\ ValidDelta(dt, de)
      IN  [st |-> IF emit THEN Put(acc.st, dom.name, Round2(de, dt)) ELSE acc.st,
           lr |-> Put(acc.lr, dom.name, <<t, energy_uj>>),
           em |-> IF emit THEN Put(acc.em, dom.path, Round2(de, dt)) ELSE acc.em,
           de |-> IF has THEN Put(acc.de, dom.path, de) ELSE acc.de]

\* One iteration of "for domain in self.domains".  acc carries stats,
\* last_readings and the per-domain record of what was computed.
DomainStep(acc, dom, rd, t) ==
    IF dom.path \notin DOMAIN rd THEN acc          \* missing or unparsable
    ELSE
      LET energy_uj == rd[dom.path]
          has == dom.path \in DOMAIN acc.lr
          dt == t - acc.lr[dom.path][1]
          de == CorrectedDelta(energy_uj, acc.lr[dom.path][2], dom.max_range)
          emit == has /\ ValidDelta(dt, de)
      IN  [st |-> IF emit THEN Put(acc.st, dom.name, Round2(de, dt)) ELSE acc.st,
           lr |-> Put(acc.lr, dom.path, <<t, energy_uj>>),
           em |-> IF emit THEN Put(acc.em, dom.path, Round2(de, dt)) ELSE acc.em,
           de |-> IF has THEN Put(acc.de, dom.path, de) ELSE acc.de]

RECURSIVE DomainLoop(_, _, _, _, _)
DomainLoop(ds, i, acc, rd, t) ==
    IF i > Len(ds) THEN acc
    ELSE DomainLoop(ds, i + 1, DomainStep(acc, ds[i], rd, t), rd, t)

\* The body of get_power_stats at clock value t, rd holding the registers
\* that can be read.
PowerStatsCall(t, rd) ==
    LET counter == cleanup_counter + 1
        prune == counter > CleanupEvery
        kept == IF prune
                THEN Without(last_readings, KeysToRemove(last_readings, t))
                ELSE last_readings
        res == DomainLoop(domains, 1,
                          [st |-> EmptyMap, lr |-> kept,
                           em |-> EmptyMap, de |-> EmptyMap], rd, t)
    IN  /\ cleanup_counter' = IF prune THEN 0 ELSE counter
        /\ pruned' = prune
        /\ last_readings' = res.lr
        /\ stats' = res.st
        /\ emitted' = res.em
        /\ delta' = res.de
        /\ now' = t
        /\ reads' = rd
        /\ prev_readings' = last_readings
        /\ read_before' = read_before \cup DOMAIN reads
        /\ calls' = calls + 1

\* A get_power_stats that forgets the domains it could not read.
GetPowerStatsDropsUnreadable ==
    /\ calls < MaxCalls
    /\ \E t \in Times :
       \E readable \in SUBSET Paths(domains) :
       \E rd \in [readable -> Energies] :
          /\ PowerStatsCall(t, rd)
          /\ domains' = SelectSeq(domains, LAMBDA d : d.path \in readable)
    /\ UNCHANGED fs
    /\ UNCHANGED cacheVars
    /\ UNCHANGED serveVars

GetPowerStats ==
    /\ calls < MaxCalls
    /\ \E t \in Times :
       \E readable \in SUBSET Paths(domains) :
       \E rd \in [readable -> Energies] :
          PowerStatsCall(t, rd)
    /\ UNCHANGED <<fs, domains>>
    /\ UNCHANGED cacheVars
    /\ UNCHANGED serveVars

(***************************************************************************)
(* The tracker after construction.  cleanup_counter starts at 0; the model *)
(* also starts from the state reached after CleanupEvery - 2 calls in      *)
(* which no energy file could be read (last_readings still empty), so that *)
(* the cleanup pass is within MaxCalls.                                    *)
(***************************************************************************)
RaplConstructed(f, counter) ==
    /\ fs = f
    /\ domains = InitDomains(f)
    /\ last_readings = EmptyMap
    /\ cleanup_counter = counter
    /\ stats = EmptyMap
    /\ now = 0
    /\ reads = EmptyMap
    /\ prev_readings = EmptyMap
    /\ pruned = FALSE
    /\ emitted = EmptyMap
    /\ delta = EmptyMap
    /\ read_before = {}
    /\ calls = 0

RaplInit ==
    \E f \in FsChoices : \E counter \in {0, CleanupEvery - 2} :
        RaplConstructed(f, counter)

(***************************************************************************)
(* The aged caches.  A cached value is a token: "A" and "B" stand for two  *)
(* different non-empty results; the other tokens are the literal values of *)
(* the source.                                                             *)
(***************************************************************************)
Caches == {"process", "connection_states", "ssh_stats", "gpu_info",
           "disk_partitions"}

ProcessThreshold == 5
ConnectionStatesThreshold == 10
SshThreshold == 10
GpuThreshold == 60
PartitionsThreshold == 60

Threshold(c) ==
    CASE c = "process" -> ProcessThreshold
      [] c = "connection_states" -> ConnectionStatesThreshold
      [] c = "ssh_stats" -> SshThreshold
      [] c = "gpu_info" -> GpuThreshold
      [] c = "disk_partitions" -> PartitionsThreshold

\* The global holding the value of cache c, and the one holding its
\* refresh time.
CacheValue(c) ==
    CASE c = "process" -> process_cache
      [] c = "connection_states" -> connection_states_cache
      [] c = "ssh_stats" -> ssh_stats_cache
      [] c = "gpu_info" -> gpu_info_cache
      [] c = "disk_partitions" -> disk_partitions_cache

LastRefresh(c) ==
    CASE c = "process" -> last_process_time
      [] c = "connection_states" -> last_connection_states_time
      [] c = "ssh_stats" -> last_ssh_time
      [] c = "gpu_info" -> last_gpu_info_time
      [] c = "disk_partitions" -> last_partitions_time

\* Seconds that pass before a read of cache c: within the window, exactly
\* the window, and beyond it.
Elapsed(c) == {1, Threshold(c), Threshold(c) + 1}

\* Seconds a computation takes.
Durations == {0, 1}

\* What the underlying computation does: it returns val, or it raises.
Outcomes(vals) ==
    [ok : {TRUE}, val : vals] \cup {[ok |-> FALSE, val |-> "raised"]}

NoRead ==
    [cache |-> "none", at |-> 0, last_before |-> 0, val_before |-> "none",
     ran |-> FALSE, ok |-> FALSE, raised |-> FALSE, ret |-> "none"]

ReadRecord(c, t, lastBefore, valBefore, ran, ok, raised, ret) ==
    [cache |-> c, at |-> t, last_before |-> lastBefore, val_before |-> valBefore,
     ran |-> ran, ok |-> ok, raised |-> raised, ret |-> ret]

\* computed_at of a cache whose value is still the one the module was
\* loaded with.
Never == 0

\* Bookkeeping common to every read: the record of the read, the last
\* value computed without a failure, and (stored) whether the read assigned
\* the result of its computation to the cache.
Noted(rec, g, stored) ==
    /\ last_read' = rec
    /\ good' = [good EXCEPT ![rec.cache] = g]
    /\ computed_at' = IF stored
                      THEN [computed_at EXCEPT ![rec.cache] = clock']
                      ELSE computed_at
    /\ cache_reads' = cache_reads + 1
    /\ UNCHANGED watched

\* What a call of one of the cache functions does: the value and the
\* refresh time it leaves in the globals, whether it ran the computation,
\* whether that succeeded, whether it assigned the result to the cache,
\* whether the call raised, what it returned, and the clock when it ended.
CallResult(val, last, ran, ok, stored, raised, ret, end) ==
    [val |-> val, last |-> last, ran |-> ran, ok |-> ok, stored |-> stored,
     raised |-> raised, ret |-> ret, end |-> end]

\* A call that found the cache fresh.
Hit(cache, last, t) ==
    CallResult(cache, last, FALSE, FALSE, FALSE, FALSE, cache, t)

\* get_top_processes entered at clock t with the globals (cache, last); the
\* scan takes dur and does o.  The outer except keeps the processes
\* appended so far (none in the model); the list is stored either way.
TopProcesses(cache, last, t, dur, o) ==
    IF t - last > ProcessThreshold
    THEN LET processes == IF o.ok THEN o.val ELSE "[]"
         IN  CallResult(processes, t + dur, TRUE, o.ok, TRUE, FALSE,
                        processes, t + dur)
    ELSE Hit(cache, last, t)

\* get_connection_states: net_connections() raising leaves every count 0.
ConnectionStates(cache, last, t, dur, o) ==
    IF t - last > ConnectionStatesThreshold
    THEN LET states == IF o.ok THEN o.val ELSE "zeros"
         IN  CallResult(states, t + dur, TRUE, o.ok, TRUE, FALSE,
                        states, t + dur)
    ELSE Hit(cache, last, t)

\* get_ssh_stats: the assignment to the cache is the last statement of the
\* try block, the assignment to the refresh time follows the except.
SshStats(cache, last, t, dur, o) ==
    IF t - last > SshThreshold
    THEN LET stored == IF o.ok THEN o.val ELSE cache
         IN  CallResult(stored, t + dur, TRUE, o.ok, o.ok, FALSE,
                        stored, t + dur)
    ELSE Hit(cache, last, t)

\* get_gpu_info: a scan that finds no Intel card, or raises, gives
\* "Unknown GPU".
GpuInfo(cache, last, t, dur, o) ==
    IF t - last > GpuThreshold \/ cache = "None"
    THEN LET name == IF o.ok THEN o.val ELSE "Unknown GPU"
         IN  CallResult(name, t + dur, TRUE, o.ok, TRUE, FALSE,
                        name, t + dur)
    ELSE Hit(cache, last, t)

\* The disk partition block of collect_stats ([] is falsy).
\* psutil.disk_partitions() is called outside any try: its exception
\* leaves collect_stats.
Partitions(cache, last, t, dur, o) ==
    IF t - last > PartitionsThreshold \/ cache = "[]"
    THEN IF o.ok
         THEN CallResult(o.val, t + dur, TRUE, TRUE, TRUE, FALSE,
                         o.val, t + dur)
         ELSE CallResult(cache, last, TRUE, FALSE, FALSE, TRUE,
                         "raised", t + dur)
    ELSE Hit(cache, last, t)

\* A read of cache c at clock t that did r, seen from outside.
Read(c, t, valBefore, lastBefore, r) ==
    /\ clock' = r.end
    /\ Noted(ReadRecord(c, t, lastBefore, valBefore,
                        r.ran, r.ok, r.raised, r.ret),
             IF r.ran /\ r.ok THEN r.ret ELSE good[c],
             r.stored)

\* get_top_processes
GetTopProcesses ==
    /\ watched = "process" /\ cache_reads < MaxReads
    /\ \E e \in Elapsed("process"), dur \in Durations,
          o \in Outcomes({"[]", "A", "B"}) :
         LET t == clock + e
             r == TopProcesses(process_cache, last_process_time, t, dur, o)
         IN  /\ process_cache' = r.val
             /\ last_process_time' = r.last
             /\ Read("process", t, process_cache, last_process_time, r)
    /\ UNCHANGED <<connection_states_cache, last_connection_states_time,
                   ssh_stats_cache, last_ssh_time,
                   gpu_info_cache, last_gpu_info_time,
                   disk_partitions_cache, last_partitions_time>>
    /\ UNCHANGED raplVars
    /\ UNCHANGED serveVars

\* get_connection_states
GetConnectionStates ==
    /\ watched = "connection_states" /\ cache_reads < MaxReads
    /\ \E e \in Elapsed("connection_states"), dur \in Durations,
          o \in Outcomes({"zeros", "A", "B"}) :
         LET t == clock + e
             r == ConnectionStates(connection_states_cache,
                                   last_connection_states_time, t, dur, o)
         IN  /\ connection_states_cache' = r.val
             /\ last_connection_states_time' = r.last
             /\ Read("connection_states", t, connection_states_cache,
                     last_connection_states_time, r)
    /\ UNCHANGED <<process_cache, last_process_time,
                   ssh_stats_cache, last_ssh_time,
                   gpu_info_cache, last_gpu_info_time,
                   disk_partitions_cache, last_partitions_time>>
    /\ UNCHANGED raplVars
    /\ UNCHANGED serveVars

\* get_ssh_stats
GetSshStats ==
    /\ watched = "ssh_stats" /\ cache_reads < MaxReads
    /\ \E e \in Elapsed("ssh_stats"), dur \in Durations,
          o \in Outcomes({"A", "B"}) :
         LET t == clock + e
             r == SshStats(ssh_stats_cache, last_ssh_time, t, dur, o)
         IN  /\ ssh_stats_cache' = r.val
             /\ last_ssh_time' = r.last
             /\ Read("ssh_stats", t, ssh_stats_cache, last_ssh_time, r)
    /\ UNCHANGED <<process_cache, last_process_time,
                   connection_states_cache, last_connection_states_time,
                   gpu_info_cache, last_gpu_info_time,
                   disk_partitions_cache, last_partitions_time>>
    /\ UNCHANGED raplVars
    /\ UNCHANGED serveVars

\* get_gpu_info
GetGpuInfo ==
    /\ watched = "gpu_info" /\ cache_reads < MaxReads
    /\ \E e \in Elapsed("gpu_info"), dur \in Durations,
          o \in Outcomes({"Unknown GPU", "A", "B"}) :
         LET t == clock + e
             r == GpuInfo(gpu_info_cache, last_gpu_info_time, t, dur, o)
         IN  /\ gpu_info_cache' = r.val
             /\ last_gpu_info_time' = r.last
             /\ Read("gpu_info", t, gpu_info_cache, last_gpu_info_time, r)
    /\ UNCHANGED <<process_cache, last_process_time,
                   connection_states_cache, last_connection_states_time,
                   ssh_stats_cache, last_ssh_time,
                   disk_partitions_cache, last_partitions_time>>
    /\ UNCHANGED raplVars
    /\ UNCHANGED serveVars

\* The disk partition block of collect_stats.
DiskPartitions ==
    /\ watched = "disk_partitions" /\ cache_reads < MaxReads
    /\ \E e \in Elapsed("disk_partitions"), dur \in Durations,
          o \in Outcomes({"[]", "A", "B"}) :
         LET t == clock + e
             r == Partitions(disk_partitions_cache, last_partitions_time,
                             t, dur, o)
         IN  /\ disk_partitions_cache' = r.val
             /\ last_partitions_time' = r.last
             /\ Read("disk_partitions", t, disk_partitions_cache,
                     last_partitions_time, r)
    /\ UNCHANGED <<process_cache, last_process_time,
                   connection_states_cache, last_connection_states_time,
                   ssh_stats_cache, last_ssh_time,
                   gpu_info_cache, last_gpu_info_time>>
    /\ UNCHANGED raplVars
    /\ UNCHANGED serveVars

\* The module globals after load; c is the cache the behaviour reads.
CacheLoaded(c) ==
    /\ clock = StartClock
    /\ process_cache = "[]"
    /\ last_process_time = 0
    /\ connection_states_cache = "{}"
    /\ last_connection_states_time = 0
    /\ ssh_stats_cache = "stopped"
    /\ last_ssh_time = 0
    /\ gpu_info_cache = "None"
    /\ last_gpu_info_time = 0
    /\ disk_partitions_cache = "[]"
    /\ last_partitions_time = 0
    /\ watched = c
    /\ last_read = NoRead
    /\ good = [k \in Caches |-> "none"]
    /\ computed_at = [k \in Caches |-> Never]
    /\ cache_reads = 0

(***************************************************************************)
(* collect_stats, the handlers that call it, and the event loop.           *)
(*                                                                         *)
(* Objects (history samples, cached values, power records) live in `heap`  *)
(* and are referred to by id, as Python refers to them by reference.       *)
(* The handlers are coroutines of one event loop: a coroutine runs until   *)
(* its next await, and only then may another coroutine run.                *)
(***************************************************************************)
\* deque(maxlen=60)
Capacity == 60

\* The sub-collectors of collect_stats and the scans behind the caches.
Collectors == {"cpu", "memory", "disk_partitions", "net_io", "sensors",
               "fans", "battery", "rapl", "boot_time",
               "net_connections", "process_iter", "lspci"}

\* The callers: two /api/stats requests, an /api/info request and a
\* /ws/stats session.
Callers == {"api1", "api2", "info1", "ws1"}

Kind(c) ==
    CASE c \in {"api1", "api2"} -> "api"
      [] c = "info1" -> "info"
      [] c = "ws1" -> "ws"

\* ---- floats of the interval arithmetic, in hundredths of a second
Float(v) == [nan |-> FALSE, v |-> v]
NaN == [nan |-> TRUE, v |-> 0]

\* a < b and a > b; every comparison with NaN is false
Lt(a, b) == ~a.nan /\ ~b.nan /\ a.v < b.v
Gt(a, b) == ~a.nan /\ ~b.nan /\ a.v > b.v

MinInterval == 10
MaxInterval == 6000

\* "if interval < 0.1: interval = 0.1" then "if interval > 60: interval = 60"
ClampInterval(interval) ==
    LET low == IF Lt(interval, Float(MinInterval))
               THEN Float(MinInterval) ELSE interval
    IN  IF Gt(low, Float(MaxInterval)) THEN Float(MaxInterval) ELSE low

\* interval - elapsed, without the max.
SleepTimeUnclamped(interval, elapsed) ==
    IF interval.nan THEN 0 ELSE interval.v - 100 * elapsed

\* max(0, interval - elapsed), elapsed in whole seconds; max keeps its
\* first argument unless the second compares greater
SleepTime(interval, elapsed) ==
    LET d == IF interval.nan THEN NaN ELSE Float(interval.v - 100 * elapsed)
    IN  IF Gt(d, Float(0)) THEN d.v ELSE 0

\* Whole seconds that pass while asyncio.sleep(s) sleeps s hundredths.
Slept(s) == (s + 99) \div 100

\* ---- the history buffers
\* An append that never evicts.
PushNoEviction(buf, x) == Append(buf, x)

\* deque.append on a deque with maxlen: a full deque drops its oldest item.
Push(buf, x) ==
    IF Len(buf) = Capacity THEN Append(Tail(buf), x) ELSE Append(buf, x)

\* ---- objects
Sample(t) == [type |-> "sample", time |-> t, val |-> "reading"]
Cached(v) == [type |-> "cached", time |-> 0, val |-> v]
PowerRecord(p) == [type |-> "power", time |-> 0, val |-> p]

\* ---- the power section
\* "Package" in k, over the display names of the model
NameHasPackage(k) == k \in {"Package-0", "Package-?"}

RECURSIVE SumOver(_, _)
SumOver(f, ks) ==
    IF ks = {} THEN 0
    ELSE LET k == CHOOSE x \in ks : TRUE
         IN  f[k] + SumOver(f, ks \ {k})

\* sum(v for k, v in rapl_stats.items() if "Package" in k), 1/100 W
PackageTotal(st) == SumOver(st, {k \in DOMAIN st : NameHasPackage(k)})

\* /sys/class/power_supply.  A supply: whether power_now can be read and
\* its value (microwatts); whether voltage_now and current_now can be read
\* and their values (microvolts, microamperes).
Supply(hasPower, power, hasVC, voltage, current) ==
    [hasPower |-> hasPower, power |-> power, hasVC |-> hasVC,
     voltage |-> voltage, current |-> current]

SupplyChoices ==
    { \* no /sys/class/power_supply
      [exists |-> FALSE, supplies |-> <<>>],
      \* a battery that reports power_now (7.5 W)
      [exists |-> TRUE,
       supplies |-> << Supply(TRUE, 7500000, FALSE, 0, 0) >>],
      \* an adapter that reports nothing readable and a battery that reports
      \* voltage and current (12 V, 0.5 A)
      [exists |-> TRUE,
       supplies |-> << Supply(FALSE, 0, FALSE, 0, 0),
                       Supply(FALSE, 0, TRUE, 12000000, 500000) >>],
      \* a discharged supply: power_now reads 0
      [exists |-> TRUE,
       supplies |-> << Supply(TRUE, 0, TRUE, 12000000, 500000) >>] }

\* One iteration of "for supply in os.listdir(base_path)", in microwatts:
\* p_now / 1000000.0 watts, or (v_now * c_now) / 1e12 watts (the voltages
\* and currents of SupplyChoices are whole millivolts and milliamperes).
SupplyMicroWatts(s) ==
    IF s.hasPower THEN s.power
    ELSE IF s.hasVC THEN (s.voltage \div 1000) * (s.current \div 1000)
    ELSE 0

RECURSIVE SuppliesMicroWatts(_, _)
SuppliesMicroWatts(ss, i) ==
    IF i > Len(ss) THEN 0
    ELSE SupplyMicroWatts(ss[i]) + SuppliesMicroWatts(ss, i + 1)

\* round(power_watts, 4), in 1/10000 W (the values of SupplyChoices are
\* whole multiples of 1/10000 W)
Round4(microwatts) ==
    LET q == microwatts \div 100
        r == microwatts % 100
    IN  IF 2 * r < 100 THEN q
        ELSE IF 2 * r > 100 THEN q + 1
        ELSE IF q % 2 = 0 THEN q ELSE q + 1

NoWatts == [has |-> FALSE, w |-> 0]
Watts4(w) == [has |-> TRUE, w |-> w]

\* A power section whose fallback runs whenever RAPL gave a mapping.
PowerStatusFallbackAlways(battery, st, ps) ==
    LET has_rapl == st # EmptyMap
        total == IF has_rapl THEN PackageTotal(st) ELSE 0
        pw == IF ps.exists THEN SuppliesMicroWatts(ps.supplies, 1) ELSE 0
    IN  [battery |-> battery,
         has_rapl |-> has_rapl,
         rapl |-> st,
         fallback |-> TRUE,
         consumption_watts |->
             IF pw > 0 THEN Watts4(Round4(pw))
             ELSE IF has_rapl /\ total > 0 THEN Watts4(100 * total)
             ELSE NoWatts]

\* power_status as lines 726-774 leave it.  battery: whether
\* sensors_battery() gave a battery; st: what get_power_stats returned;
\* ps: the power_supply directory.  fallback: whether the block under
\* 'if "consumption_watts" not in power_status' ran.  consumption_watts is
\* in 1/10000 W.
PowerStatus(battery, st, ps) ==
    LET has_rapl == st # EmptyMap                        \* "if rapl_stats:"
        total == IF has_rapl THEN PackageTotal(st) ELSE 0
        from_rapl == has_rapl /\ total > 0
        pw == IF ps.exists THEN SuppliesMicroWatts(ps.supplies, 1) ELSE 0
    IN  [battery |-> battery,
         has_rapl |-> has_rapl,
         rapl |-> st,
         fallback |-> ~from_rapl,
         consumption_watts |->
             IF from_rapl THEN Watts4(100 * total)
             ELSE IF pw > 0 THEN Watts4(Round4(pw))
             ELSE NoWatts]

\* ---- the host
\* sensors_temperatures() answers and holds CPU core entries.
HasCoreTempsAlways(e) == TRUE

HasCoreTemps(e) == "sensors" \notin e.failing /\ e.core_temps

\* ---- locals and results
NoSnapshot ==
    [fans |-> "none", sensors |-> "none", power |-> 0,
     temp_history |-> <<>>, history |-> <<>>,
     connection_states |-> 0, ssh_stats |-> 0, processes |-> 0]

\* The locals of a handler that has not started.
NoLocals ==
    [requested |-> Float(0), interval |-> Float(0), start_time |-> 0,
     sleep_time |-> 0,
     t |-> 0, sample |-> 0, fans |-> "none", sensors |-> "none",
     power |-> 0, fallback |-> FALSE, total |-> 0,
     temp_history |-> <<>>, history |-> <<>>,
     refs |-> [k \in Caches |-> 0], refreshed |-> {},
     mem_before |-> 0, temp_before |-> 0]

NoResult ==
    [kind |-> "none", snap |-> NoSnapshot, mem_appended |-> 0,
     temp_appended |-> 0, fallback |-> FALSE, total |-> 0,
     refreshed |-> {}, at |-> 0, raised |-> 0]

\* The dictionary collect_stats returns (lines 964-993): the sections
\* that refer to shared objects, and the sections with defaults.
Snapshot(l) ==
    [fans |-> l.fans, sensors |-> l.sensors, power |-> l.power,
     temp_history |-> l.temp_history, history |-> l.history,
     connection_states |-> l.refs["connection_states"],
     ssh_stats |-> l.refs["ssh_stats"],
     processes |-> l.refs["process"]]

\* What the objects of a snapshot hold.
Deref(h, ids) == [i \in 1..Len(ids) |-> h[ids[i]]]

Content(h, s) ==
    [power |-> h[s.power],
     temp_history |-> Deref(h, s.temp_history),
     history |-> Deref(h, s.history),
     connection_states |-> h[s.connection_states],
     ssh_stats |-> h[s.ssh_stats],
     processes |-> h[s.processes]]

NoHeld == [has |-> FALSE, snap |-> NoSnapshot, content |-> <<>>]

\* A caller without a client connection.  peer: "none", "open" or
\* "closed"; started: collect_stats calls its push loop has made; sends:
\* send_json calls that have returned or raised; failed: those that raised.
NoSession == [peer |-> "none", started |-> 0, sends |-> 0, failed |-> 0]

\* No function is being applied.
NoCall == [name |-> "none"]

\* ---- frame
cacheGlobals == <<process_cache, last_process_time,
                  connection_states_cache, last_connection_states_time,
                  ssh_stats_cache, last_ssh_time,
                  gpu_info_cache, last_gpu_info_time,
                  disk_partitions_cache, last_partitions_time>>

cacheNotes == <<watched, last_read, good, computed_at, cache_reads>>

histories == <<memory_history, cpu_temp_history, mem_pushed, temp_pushed>>

objects == <<heap, bound, pristine>>

\* ---- the event loop
\* A coroutine that runs on a worker thread, whatever the loop executes.
TurnOnWorkerThread(c, holder) == TRUE

\* Caller c may take a step of synchronous code when it holds the loop
\* (holder = c), and may start or resume when no coroutine holds it
\* (holder = "none"): get_stats, get_info and websocket_endpoint are
\* "async def", so the event loop itself calls collect_stats.
Turn(c, holder) == running = holder

Goto(c, p) == pc' = [pc EXCEPT ![c] = p]

Locals(c, l) == loc' = [loc EXCEPT ![c] = l]

\* A handler that an exception always ends.
AfterFailureEnds(c) == "idle"

\* Where an exception of collect_stats or of send_json takes the handler:
\* the push loop catches it (line 1013), the /api handlers do not.
AfterFailure(c) == IF Kind(c) = "ws" THEN "backoff" ELSE "idle"

\* An exception leaves collect_stats: the /api handlers pass it on (the
\* request fails), the push loop catches it, prints, and awaits
\* asyncio.sleep(1).
Raise(c) ==
    /\ result' = [result EXCEPT ![c] =
                     [NoResult EXCEPT !.kind = "raised", !.at = clock',
                                      !.raised = result[c].raised + 1]]
    /\ running' = "none"
    /\ Goto(c, AfterFailure(c))

\* ---- starting a handler
\* GET /api/stats: get_stats calls collect_stats
Request(c) ==
    /\ Kind(c) = "api" /\ pc[c] = "idle" /\ Turn(c, "none")
    /\ collects < env.max_collects
    /\ \E e \in env.steps : clock' = clock + e
    /\ running' = c
    /\ collects' = collects + 1
    /\ Goto(c, "collect")
    /\ Locals(c, NoLocals)
    /\ UNCHANGED <<env, fn, session, result, held, objects, histories, cacheGlobals,
                   cacheNotes, raplVars>>

\* GET /api/info: of get_info, the call of get_gpu_info
InfoRequest(c) ==
    /\ Kind(c) = "info" /\ pc[c] = "idle" /\ Turn(c, "none")
    /\ collects < env.max_collects
    /\ \E e \in env.steps : clock' = clock + e
    /\ running' = c
    /\ collects' = collects + 1
    /\ Goto(c, "gpu")
    /\ Locals(c, NoLocals)
    /\ UNCHANGED <<env, fn, session, result, held, objects, histories, cacheGlobals,
                   cacheNotes, raplVars>>

\* WS /ws/stats?interval=...: up to "await websocket.accept()"
Connect(c) ==
    /\ Kind(c) = "ws" /\ pc[c] = "idle" /\ Turn(c, "none")
    /\ \E i \in env.intervals :
          Locals(c, [NoLocals EXCEPT !.requested = i, !.interval = i])
    /\ Goto(c, "accepting")
    /\ session' = [session EXCEPT ![c] = [NoSession EXCEPT !.peer = "open"]]
    /\ UNCHANGED <<env, fn, running, result, collects, held, objects, histories,
                   clock, cacheGlobals, cacheNotes, raplVars>>

\* the two clamping statements, then the loop is entered
Clamp(c) ==
    /\ pc[c] = "accepting" /\ Turn(c, "none")
    /\ Locals(c, [loc[c] EXCEPT !.interval = ClampInterval(loc[c].interval)])
    /\ running' = c
    /\ Goto(c, "loop")
    /\ UNCHANGED <<env, fn, session, result, collects, held, objects, histories,
                   clock, cacheGlobals, cacheNotes, raplVars>>

\* "start_time = time.time()" and the call of collect_stats
LoopTop(c) ==
    /\ pc[c] = "loop" /\ Turn(c, c)
    /\ collects < env.max_collects
    /\ collects' = collects + 1
    /\ Locals(c, [NoLocals EXCEPT !.requested = loc[c].requested,
                                  !.interval = loc[c].interval,
                                  !.start_time = clock])
    /\ Goto(c, "collect")
    /\ session' = [session EXCEPT ![c].started = @ + 1]
    /\ UNCHANGED <<env, fn, running, result, held, objects, histories,
                   clock, cacheGlobals, cacheNotes, raplVars>>

\* ---- collect_stats, in the order of its statements
\* lines 630-691: CPU percentages and times (outside any try), then load
\* average, CPU statistics, frequencies and fans (each in a try)
Cpu(c) ==
    /\ pc[c] = "collect" /\ Turn(c, c)
    /\ clock' = clock
    /\ IF "cpu" \in env.failing
       THEN Raise(c) /\ UNCHANGED loc
       ELSE /\ Locals(c, [loc[c] EXCEPT
                            !.fans = IF "fans" \in env.failing
                                     THEN "[]" ELSE "data",
                            !.mem_before = Len(mem_pushed),
                            !.temp_before = Len(temp_pushed)])
            /\ Goto(c, "sensors")
            /\ UNCHANGED <<running, result>>
    /\ UNCHANGED <<env, fn, session, collects, held, objects, histories,
                   cacheGlobals, cacheNotes, raplVars>>

\* lines 693-718: the sensors block up to the sample it builds
Sensors(c) ==
    /\ pc[c] = "sensors" /\ Turn(c, c)
    /\ IF HasCoreTemps(env)
       THEN /\ Locals(c, [loc[c] EXCEPT !.sensors = "data", !.sample = clock])
            /\ Goto(c, "temp_append")
       ELSE /\ Locals(c, [loc[c] EXCEPT
                            !.sensors = IF "sensors" \in env.failing
                                        THEN "{}" ELSE "data"])
            /\ Goto(c, "power")
    /\ UNCHANGED <<env, fn, session, running, result, collects, held, objects, histories,
                   clock, cacheGlobals, cacheNotes, raplVars>>

\* lines 719-723: _cpu_temp_history.append(...)
TempAppend(c) ==
    /\ pc[c] = "temp_append" /\ Turn(c, c)
    /\ LET id == Len(heap) + 1
       IN  /\ heap' = Append(heap, Sample(loc[c].sample))
           /\ pristine' = Append(pristine, Sample(loc[c].sample))
           /\ cpu_temp_history' = Push(cpu_temp_history, id)
           /\ temp_pushed' = Append(temp_pushed, id)
    /\ Goto(c, "power")
    /\ UNCHANGED <<env, fn, session, running, loc, result, collects, held, bound,
                   memory_history, mem_pushed,
                   clock, cacheGlobals, cacheNotes, raplVars>>

\* lines 726-774: battery, get_power_stats, and the power_supply fallback
Power(c) ==
    /\ pc[c] = "power" /\ Turn(c, c)
    /\ \E rd \in [(IF "rapl" \in env.failing THEN {} ELSE Paths(domains))
                   -> env.energies] :
          /\ PowerStatsCall(clock, rd)
          /\ LET p == PowerStatus("battery" \notin env.failing, stats',
                                  env.supplies)
             IN  /\ heap' = Append(heap, PowerRecord(p))
                 /\ pristine' = Append(pristine, PowerRecord(p))
                 /\ Locals(c, [loc[c] EXCEPT !.power = Len(heap) + 1,
                                             !.fallback = p.fallback,
                                             !.total = PackageTotal(stats')])
    /\ Goto(c, "memory")
    /\ UNCHANGED <<fs, domains>>
    /\ UNCHANGED <<env, fn, session, running, result, collects, held, bound, histories,
                   clock, cacheGlobals, cacheNotes>>

\* lines 776-790: virtual_memory() (outside any try) and the sample built
Memory(c) ==
    /\ pc[c] = "memory" /\ Turn(c, c)
    /\ clock' = clock
    /\ IF "memory" \in env.failing
       THEN Raise(c) /\ UNCHANGED loc
       ELSE /\ Locals(c, [loc[c] EXCEPT !.sample = clock])
            /\ Goto(c, "mem_append")
            /\ UNCHANGED <<running, result>>
    /\ UNCHANGED <<env, fn, session, collects, held, objects, histories,
                   cacheGlobals, cacheNotes, raplVars>>

\* lines 791-796: _memory_history.append(...)
MemAppend(c) ==
    /\ pc[c] = "mem_append" /\ Turn(c, c)
    /\ LET id == Len(heap) + 1
       IN  /\ heap' = Append(heap, Sample(loc[c].sample))
           /\ pristine' = Append(pristine, Sample(loc[c].sample))
           /\ memory_history' = Push(memory_history, id)
           /\ mem_pushed' = Append(mem_pushed, id)
    /\ Goto(c, "partitions")
    /\ UNCHANGED <<env, fn, session, running, loc, result, collects, held, bound,
                   cpu_temp_history, temp_pushed,
                   clock, cacheGlobals, cacheNotes, raplVars>>

\* line 873: net_io_counters() (outside any try)
NetIo(c) ==
    /\ pc[c] = "net" /\ Turn(c, c)
    /\ clock' = clock
    /\ IF "net_io" \in env.failing
       THEN Raise(c)
       ELSE Goto(c, "tcp") /\ UNCHANGED <<running, result>>
    /\ UNCHANGED <<env, fn, session, loc, collects, held, objects, histories,
                   cacheGlobals, cacheNotes, raplVars>>

\* lines 960-983: boot_time() (outside any try), then the dictionary is
\* built: list(_cpu_temp_history), list(_memory_history)
BootTime(c) ==
    /\ pc[c] = "boot" /\ Turn(c, c)
    /\ clock' = clock
    /\ IF "boot_time" \in env.failing
       THEN Raise(c) /\ UNCHANGED loc
       ELSE /\ Locals(c, [loc[c] EXCEPT !.temp_history = cpu_temp_history,
                                        !.history = memory_history])
            /\ Goto(c, "ssh")
            /\ UNCHANGED <<running, result>>
    /\ UNCHANGED <<env, fn, session, collects, held, objects, histories,
                   cacheGlobals, cacheNotes, raplVars>>

\* ---- the aged caches inside the handlers
\* The function that reads cache k.
Call(k, cache, last, t, dur, o) ==
    CASE k = "process" -> TopProcesses(cache, last, t, dur, o)
      [] k = "connection_states" -> ConnectionStates(cache, last, t, dur, o)
      [] k = "ssh_stats" -> SshStats(cache, last, t, dur, o)
      [] k = "gpu_info" -> GpuInfo(cache, last, t, dur, o)
      [] k = "disk_partitions" -> Partitions(cache, last, t, dur, o)

\* The scan behind cache k.
Source(k) ==
    CASE k = "process" -> "process_iter"
      [] k = "connection_states" -> "net_connections"
      [] k = "ssh_stats" -> "net_connections"
      [] k = "gpu_info" -> "lspci"
      [] k = "disk_partitions" -> "disk_partitions"

OutcomesOn(k) ==
    IF Source(k) \in env.failing
    THEN {[ok |-> FALSE, val |-> "raised"]}
    ELSE [ok : {TRUE}, val : env.vals]

\* The positions of a caller at the staleness test of cache k, inside its
\* computation, and after the read.
CheckPc(k) ==
    CASE k = "process" -> "processes"
      [] k = "connection_states" -> "tcp"
      [] k = "ssh_stats" -> "ssh"
      [] k = "gpu_info" -> "gpu"
      [] k = "disk_partitions" -> "partitions"

StorePc(k) ==
    CASE k = "process" -> "processes_store"
      [] k = "connection_states" -> "tcp_store"
      [] k = "ssh_stats" -> "ssh_store"
      [] k = "gpu_info" -> "gpu_store"
      [] k = "disk_partitions" -> "partitions_store"

\* disk partitions (798), connection states (907), ssh stats (990),
\* processes (992); get_info returns after get_gpu_info
After(k) ==
    CASE k = "process" -> "return"
      [] k = "connection_states" -> "boot"
      [] k = "ssh_stats" -> "processes"
      [] k = "gpu_info" -> "return"
      [] k = "disk_partitions" -> "net"

\* The globals of cache k set to (v, l), the others left alone.
SetCache(k, v, l) ==
    /\ process_cache' = IF k = "process" THEN v ELSE process_cache
    /\ last_process_time' = IF k = "process" THEN l ELSE last_process_time
    /\ connection_states_cache' =
           IF k = "connection_states" THEN v ELSE connection_states_cache
    /\ last_connection_states_time' =
           IF k = "connection_states" THEN l ELSE last_connection_states_time
    /\ ssh_stats_cache' = IF k = "ssh_stats" THEN v ELSE ssh_stats_cache
    /\ last_ssh_time' = IF k = "ssh_stats" THEN l ELSE last_ssh_time
    /\ gpu_info_cache' = IF k = "gpu_info" THEN v ELSE gpu_info_cache
    /\ last_gpu_info_time' = IF k = "gpu_info" THEN l ELSE last_gpu_info_time
    /\ disk_partitions_cache' =
           IF k = "disk_partitions" THEN v ELSE disk_partitions_cache
    /\ last_partitions_time' =
           IF k = "disk_partitions" THEN l ELSE last_partitions_time

\* A refresh that writes the new value into the object the global is
\* bound to.
StoreInPlace(h, pr, b, k, v) ==
    [heap |-> [h EXCEPT ![b[k]] = Cached(v)],
     pristine |-> [pr EXCEPT ![b[k]] = Cached(v)],
     bound |-> b]

\* "_process_cache = processes" and its like: the global is bound to the
\* object the refresh built; the object it was bound to is not touched.
Store(h, pr, b, k, v) ==
    [heap |-> Append(h, Cached(v)),
     pristine |-> Append(pr, Cached(v)),
     bound |-> [b EXCEPT ![k] = Len(h) + 1]]

\* "if time.time() - _last_..._time > threshold:" of the cache the caller
\* has reached
RefreshCheck(c) ==
    /\ Turn(c, c)
    /\ \E k \in Caches :
         /\ pc[c] = CheckPc(k)
         /\ IF Call(k, CacheValue(k), LastRefresh(k), clock, 0,
                    [ok |-> TRUE, val |-> "A"]).ran
            THEN /\ Locals(c, [loc[c] EXCEPT !.t = clock])
                 /\ Goto(c, StorePc(k))
            ELSE /\ Locals(c, [loc[c] EXCEPT !.refs[k] = bound[k]])
                 /\ Goto(c, After(k))
    /\ UNCHANGED <<env, fn, session, running, result, collects, held, objects, histories,
                   clock, cacheGlobals, cacheNotes, raplVars>>

\* the computation under that test, and the assignments that end it
RefreshStore(c) ==
    /\ Turn(c, c)
    /\ \E k \in Caches :
         /\ pc[c] = StorePc(k)
         /\ \E dur \in env.durs, o \in OutcomesOn(k) :
              LET r == Call(k, CacheValue(k), LastRefresh(k), clock, dur, o)
                  s == Store(heap, pristine, bound, k, r.val)
              IN  /\ clock' = clock + dur
                  /\ SetCache(k, r.val, r.last)
                  /\ IF r.raised
                     THEN Raise(c) /\ UNCHANGED <<loc, objects>>
                     ELSE /\ heap' = IF r.stored THEN s.heap ELSE heap
                          /\ pristine' = IF r.stored THEN s.pristine
                                         ELSE pristine
                          /\ bound' = IF r.stored THEN s.bound ELSE bound
                          /\ Locals(c, [loc[c] EXCEPT
                                          !.refs[k] = bound'[k],
                                          !.refreshed = @ \cup {k}])
                          /\ Goto(c, After(k))
                          /\ UNCHANGED <<running, result>>
    /\ UNCHANGED <<env, fn, session, collects, held, histories, cacheNotes, raplVars>>

\* A push loop that goes to its next iteration with the snapshot unsent.
AfterReturnLoops(c) == IF Kind(c) = "ws" THEN "loop" ELSE "idle"

\* What follows the return of collect_stats: line 1012 in the push loop,
\* the end of the handler in get_stats and get_info.
AfterReturn(c) == IF Kind(c) = "ws" THEN "send" ELSE "idle"

\* "return {...}" of collect_stats (of get_info), and what the handler does
\* with it: get_stats and get_info return it, the push loop goes on to
\* send it.  A consumer may keep the snapshot.
Return(c) ==
    /\ pc[c] = "return" /\ Turn(c, c)
    /\ LET snap == Snapshot(loc[c])
       IN  /\ result' = [result EXCEPT ![c] =
                 [kind |-> IF Kind(c) = "info" THEN "info" ELSE "snapshot",
                  snap |-> snap,
                  mem_appended |-> Len(mem_pushed) - loc[c].mem_before,
                  temp_appended |-> Len(temp_pushed) - loc[c].temp_before,
                  fallback |-> loc[c].fallback,
                  total |-> loc[c].total,
                  refreshed |-> loc[c].refreshed,
                  at |-> clock,
                  raised |-> result[c].raised]]
           /\ \E keep \in env.keeps :
                held' = IF keep /\ Kind(c) # "info"
                        THEN [has |-> TRUE, snap |-> snap,
                              content |-> Content(heap, snap)]
                        ELSE held
    /\ Goto(c, AfterReturn(c))
    /\ running' = IF Kind(c) = "ws" THEN running ELSE "none"
    /\ UNCHANGED <<env, fn, session, loc, collects, objects, histories,
                   clock, cacheGlobals, cacheNotes, raplVars>>

\* ---- the rest of the push loop
\* "await websocket.send_json(data)": it returns, or it raises and the
\* except clause prints and awaits asyncio.sleep(1).  A send that returns
\* has suspended the coroutine or not, as the transport was ready or not;
\* asyncio.sleep always suspends it.  To a client that
\* has gone, it raises (WebSocketDisconnect, RuntimeError or the
\* transport's error, all of them Exceptions) or, with a server that
\* drops such messages, returns.
Send(c) ==
    /\ pc[c] = "send" /\ Turn(c, c)
    /\ \E sent \in (IF session[c].peer = "closed"
                     THEN env.sends \cup {FALSE} ELSE env.sends) :
          /\ Goto(c, IF sent THEN "sent" ELSE AfterFailure(c))
          /\ \E suspended \in BOOLEAN :
                running' = IF sent /\ ~suspended THEN c ELSE "none"
          /\ session' = [session EXCEPT
                            ![c].sends = @ + 1,
                            ![c].failed = IF sent THEN @ ELSE @ + 1]
    /\ UNCHANGED <<env, fn, loc, result, collects, held, objects, histories,
                   clock, cacheGlobals, cacheNotes, raplVars>>

\* The client of the session closes its connection.  Nothing of the
\* handler runs: it never calls receive, and the server gives the
\* disconnect to the handler only through its next send or receive.
Disconnect(c) ==
    /\ session[c].peer = "open"
    /\ pc[c] \notin {"idle", "accepting"}
    /\ session' = [session EXCEPT ![c].peer = "closed"]
    /\ UNCHANGED <<env, fn, running, pc, loc, result, collects, held, objects,
                   histories, clock, cacheGlobals, cacheNotes, raplVars>>

\* A sleep that returns at once, the coroutine still running, when asked
\* for 0 seconds.
SleepZeroReturns(sleep_time) == IF sleep_time = 0 THEN "loop" ELSE "sleeping"

\* "await asyncio.sleep(sleep_time)" suspends the coroutine, also for 0
\* seconds (asyncio yields once to the event loop).
AfterSleepCall(sleep_time) == "sleeping"

\* "elapsed = ...; sleep_time = max(0, interval - elapsed);
\*  await asyncio.sleep(sleep_time)"
Sleep(c) ==
    /\ pc[c] = "sent" /\ (Turn(c, c) \/ Turn(c, "none"))
    /\ LET sleep_time == SleepTime(loc[c].interval,
                                   clock - loc[c].start_time)
       IN  /\ Locals(c, [loc[c] EXCEPT !.t = clock,
                                       !.sleep_time = sleep_time])
           /\ Goto(c, AfterSleepCall(sleep_time))
           /\ running' = IF AfterSleepCall(sleep_time) = "sleeping"
                         THEN "none" ELSE c
    /\ UNCHANGED <<env, fn, session, result, collects, held, objects, histories,
                   clock, cacheGlobals, cacheNotes, raplVars>>

\* the sleep is over: next iteration
Wake(c) ==
    /\ pc[c] = "sleeping" /\ Turn(c, "none")
    /\ LET due == loc[c].t + Slept(loc[c].sleep_time)
       IN  clock' = IF due > clock THEN due ELSE clock
    /\ running' = c
    /\ Goto(c, "loop")
    /\ UNCHANGED <<env, fn, session, loc, result, collects, held, objects, histories,
                   cacheGlobals, cacheNotes, raplVars>>

\* asyncio.sleep(1) of the except clause is over: "continue"
BackoffWake(c) ==
    /\ pc[c] = "backoff" /\ Turn(c, "none")
    /\ clock' = clock + 1
    /\ running' = c
    /\ Goto(c, "loop")
    /\ UNCHANGED <<env, fn, session, loc, result, collects, held, objects, histories,
                   cacheGlobals, cacheNotes, raplVars>>

\* ---- a consumer of a returned snapshot
\* It changes the history list it was given (here: removes the first
\* item), or a sample of that list.
Mutate(c) ==
    /\ result[c].kind = "snapshot"
    /\ result[c].snap.history # <<>>
    /\ \/ /\ result' = [result EXCEPT ![c].snap.history = Tail(@)]
          /\ UNCHANGED heap
       \/ /\ \E i \in 1..Len(result[c].snap.history) :
                heap' = [heap EXCEPT ![result[c].snap.history[i]].val =
                                         "changed"]
          /\ UNCHANGED result
    /\ UNCHANGED <<env, fn, session, running, pc, loc, collects, held, bound, pristine,
                   histories, clock, cacheGlobals, cacheNotes, raplVars>>

\* ---- the server after module load, on host e
Env(failing, core_temps, supplies, steps, durs, vals, energies, intervals,
    sends, keeps, max_collects) ==
    [failing |-> failing, core_temps |-> core_temps, supplies |-> supplies,
     steps |-> steps, durs |-> durs, vals |-> vals, energies |-> energies,
     intervals |-> intervals, sends |-> sends, keeps |-> keeps,
     max_collects |-> max_collects]

Started(e, f) ==
    /\ env = e
    /\ fn = f
    /\ session = [c \in Callers |-> NoSession]
    /\ running = "none"
    /\ pc = [c \in Callers |-> "idle"]
    /\ loc = [c \in Callers |-> NoLocals]
    /\ result = [c \in Callers |-> NoResult]
    /\ collects = 0
    /\ heap = << Cached("[]"), Cached("{}"), Cached("stopped"),
                 Cached("None"), Cached("[]") >>
    /\ pristine = heap
    /\ bound = [k \in Caches |->
                  CASE k = "process" -> 1
                    [] k = "connection_states" -> 2
                    [] k = "ssh_stats" -> 3
                    [] k = "gpu_info" -> 4
                    [] k = "disk_partitions" -> 5]
    /\ memory_history = <<>>
    /\ cpu_temp_history = <<>>
    /\ mem_pushed = <<>>
    /\ temp_pushed = <<>>
    /\ held = NoHeld

ServerLoaded(e) == Started(e, NoCall)

(***************************************************************************)
(* Functions applied on their own.  `fn` holds the function's argument,    *)
(* its locals and its result; everything else stays as loaded.             *)
(***************************************************************************)
\* The variables a function applied on its own leaves alone.
loaded == <<raplVars, cacheVars, env, running, pc, loc, result, collects,
            heap, bound, memory_history, cpu_temp_history, mem_pushed,
            temp_pushed, pristine, held, session>>

\* ---- build_process_tree
\* Processes in an argument of build_process_tree.
MaxProcs == 3

\* A pid no process of the model has.
AbsentPid == 99

\* A process record: its pid, and its ppid if the record has one.
Proc(pid, has_ppid, ppid) == [pid |-> pid, has_ppid |-> has_ppid, ppid |-> ppid]

\* What process_iter gives on Linux: distinct positive pids (here 1..n in
\* list order); a ppid is 0 (no parent), any pid of 1..MaxProcs (in the
\* list or not, the process itself included) or AbsentPid, or is missing.
ParentChoices ==
    {Proc(0, TRUE, q) : q \in (0..MaxProcs) \cup {AbsentPid}}
        \cup {Proc(0, FALSE, 0)}

ProcessLists ==
    UNION {{[i \in 1..n |-> Proc(i, ps[i].has_ppid, ps[i].ppid)] :
               ps \in [1..n -> ParentChoices]} : n \in 0..MaxProcs}

\* p.get('ppid', 0)
Ppid(p) == IF p.has_ppid THEN p.ppid ELSE 0

\* Loop tests build_process_tree evaluates on n processes: three loops of
\* n iterations and one exit each.
TreeSteps(n) == 3 * (n + 1)

\* Steps the model lets a call take.
TreeStepLimit == TreeSteps(MaxProcs) + 1

\* What a call returned: its root list, and the children lists of the
\* records as they were then.
Forest(roots, children) == [roots |-> roots, children |-> children]

\* build_process_tree entered with `processes`.  Records are referred to
\* by their position in the list.  again: this is a second call on the
\* same list, and `first` is what the first one returned.
TreeCall(processes) ==
    [name |-> "build_process_tree", processes |-> processes,
     phase |-> "pid_map", i |-> 1, steps |-> 0,
     pid_map |-> << >>,
     children |-> [k \in 1..Len(processes) |-> <<>>],
     has_children |-> {},
     root_processes |-> <<>>,
     again |-> FALSE,
     first |-> Forest(<<>>, [k \in 1..Len(processes) |-> <<>>])]

\* The loop goes on to its next item.
Advance(f) == [f EXCEPT !.i = @ + 1, !.steps = @ + 1]

\* The loop is over: the next one starts.
Leave(f, next) == [f EXCEPT !.phase = next, !.i = 1, !.steps = @ + 1]

\* pid_map = {p['pid']: p for p in processes}: one item
PidMap(f) ==
    LET p == f.processes[f.i]
    IN  [f EXCEPT !.pid_map = [k \in DOMAIN f.pid_map \cup {p.pid} |->
                                  IF k = p.pid THEN f.i ELSE f.pid_map[k]]]

\* A pass that keeps the children list a record already has.
ChildrenKept(f) == [f EXCEPT !.has_children = @ \cup {f.i}]

\* p['children'] = []
Children(f) ==
    [f EXCEPT !.children[f.i] = <<>>, !.has_children = @ \cup {f.i}]

\* A linking iteration that leaves out the processes without a parent in
\* the list.
LinkOrphansDropped(f) ==
    LET p == f.processes[f.i]
        ppid == Ppid(p)
    IN  IF ppid \in DOMAIN f.pid_map
        THEN [f EXCEPT !.children[f.pid_map[ppid]] = Append(@, f.i)]
        ELSE f

\* A linking iteration that goes on with the parent of the process it has
\* attached, as a descent through the tree would.
LinkClimbs(f) ==
    LET p == f.processes[f.i]
        ppid == Ppid(p)
    IN  IF ppid \in DOMAIN f.pid_map
        THEN [f EXCEPT !.children[f.pid_map[ppid]] = Append(@, f.i),
                       !.i = f.pid_map[ppid] - 1]
        ELSE [f EXCEPT !.root_processes = Append(@, f.i)]

\* A linking iteration that makes a root of a process that is its own
\* parent.
LinkSelfParentAsRoot(f) ==
    LET p == f.processes[f.i]
        ppid == Ppid(p)
    IN  IF ppid \in DOMAIN f.pid_map /\ ppid # p.pid
        THEN [f EXCEPT !.children[f.pid_map[ppid]] = Append(@, f.i)]
        ELSE [f EXCEPT !.root_processes = Append(@, f.i)]

\* One iteration of the last loop: the process becomes a child of the
\* process its ppid names, or a root.
Link(f) ==
    LET p == f.processes[f.i]
        ppid == Ppid(p)
    IN  IF ppid \in DOMAIN f.pid_map
        THEN [f EXCEPT !.children[f.pid_map[ppid]] = Append(@, f.i)]
        ELSE [f EXCEPT !.root_processes = Append(@, f.i)]

\* A loop of build_process_tree at its test: `body` for the next item, or
\* the loop is over.
TreeLoop(phase, body, next) ==
    /\ fn.name = "build_process_tree" /\ fn.phase = phase
    /\ fn.steps < TreeStepLimit
    /\ fn' = IF fn.i > Len(fn.processes) THEN Leave(fn, next)
             ELSE Advance(body)
    /\ UNCHANGED loaded

TreePidMap == TreeLoop("pid_map", PidMap(fn), "children")

TreeChildren == TreeLoop("children", Children(fn), "link")

TreeLink == TreeLoop("link", Link(fn), "done")

\* The function is called again on the list it has returned from: its
\* locals are new, the records are those the first call left.
TreeAgain ==
    /\ fn.name = "build_process_tree" /\ fn.phase = "done" /\ ~fn.again
    /\ fn' = [fn EXCEPT !.again = TRUE,
                        !.first = Forest(fn.root_processes, fn.children),
                        !.phase = "pid_map", !.i = 1, !.steps = 0,
                        !.pid_map = << >>,
                        !.root_processes = <<>>]
    /\ UNCHANGED loaded

BuildProcessTree == TreePidMap \/ TreeChildren \/ TreeLink \/ TreeAgain

\* ---- the refresh of get_top_processes, process by process
\* What psutil answers for one process.  info_ok: the first statements of
\* the loop body (p.info and its three defaults) do not raise; mem_none,
\* mem: p.info['memory_percent'] is None, or its value; ppid_ok:
\* psutil.Process(pid) and ppid() answer, and ppid; uptime_ok, cwd_ok,
\* io_ok: create_time(), cwd(), io_counters() answer; cmdline: "read", or
\* "empty" (cmdline() gives []), or "fails".
RawProcess(pid, mem_none, mem) ==
    [pid |-> pid, info_ok |-> TRUE, mem_none |-> mem_none, mem |-> mem,
     ppid_ok |-> TRUE, ppid |-> 1, uptime_ok |-> TRUE, cwd_ok |-> TRUE,
     cmdline |-> "read", io_ok |-> TRUE]

\* memory_percent values of the model, and None.
MemoryPercents == {0, 5, 9}
MemoryNone == -1

\* The placeholder of an enrichment field that could not be read.
Placeholder == "-"

\* An enrichment in which a working directory that cannot be read takes
\* the command line with it.
PInfoCwdTakesCmdline(rp) ==
    [pid |-> rp.pid,
     memory_percent |-> IF rp.mem_none THEN 0 ELSE rp.mem,
     ppid |-> IF rp.ppid_ok THEN ToString(rp.ppid) ELSE "0",
     uptime |-> IF rp.ppid_ok /\ rp.uptime_ok THEN "read" ELSE Placeholder,
     cwd |-> IF rp.ppid_ok /\ rp.cwd_ok THEN "read" ELSE Placeholder,
     cmdline |-> IF rp.ppid_ok /\ rp.cwd_ok /\ rp.cmdline = "read"
                 THEN "read" ELSE Placeholder,
     io_read |-> IF rp.ppid_ok /\ rp.io_ok THEN "read" ELSE Placeholder,
     io_write |-> IF rp.ppid_ok /\ rp.io_ok THEN "read" ELSE Placeholder]

\* p_info when it is appended (lines 223-282): the None defaults, then the
\* enrichment block; its outer except sets ppid to 0 and the four other
\* fields to the placeholder.
PInfo(rp) ==
    [pid |-> rp.pid,
     memory_percent |-> IF rp.mem_none THEN 0 ELSE rp.mem,
     ppid |-> IF rp.ppid_ok THEN ToString(rp.ppid) ELSE "0",
     uptime |-> IF rp.ppid_ok /\ rp.uptime_ok THEN "read" ELSE Placeholder,
     cwd |-> IF rp.ppid_ok /\ rp.cwd_ok THEN "read" ELSE Placeholder,
     cmdline |-> IF rp.ppid_ok /\ rp.cmdline = "read"
                 THEN "read" ELSE Placeholder,
     io_read |-> IF rp.ppid_ok /\ rp.io_ok THEN "read" ELSE Placeholder,
     io_write |-> IF rp.ppid_ok /\ rp.io_ok THEN "read" ELSE Placeholder]

\* The loop over process_iter: the processes whose first statements raise
\* are passed over; an exception of process_iter itself, before its item
\* number `stop`, ends the loop with what was appended so far.
RECURSIVE Appended(_, _, _)
Appended(raw, i, stop) ==
    IF i > Len(raw) \/ i = stop THEN <<>>
    ELSE IF raw[i].info_ok
         THEN <<PInfo(raw[i])>> \o Appended(raw, i + 1, stop)
         ELSE Appended(raw, i + 1, stop)

\* x put into a list ordered by non-increasing memory_percent, behind the
\* items that compare equal to it (list.sort is stable, also reversed).
RECURSIVE Inserted(_, _)
Inserted(sorted, x) ==
    IF sorted = <<>> THEN <<x>>
    ELSE IF Head(sorted).memory_percent >= x.memory_percent
         THEN <<Head(sorted)>> \o Inserted(Tail(sorted), x)
         ELSE <<x>> \o sorted

\* A sort that leaves the list as it was collected.
SortedNot(processes, n) == SubSeq(processes, 1, n)

\* processes.sort(key=lambda x: x['memory_percent'], reverse=True), of the
\* first n items
RECURSIVE Sorted(_, _)
Sorted(processes, n) ==
    IF n = 0 THEN <<>>
    ELSE Inserted(Sorted(processes, n - 1), processes[n])

\* Process lists for the sort: every memory_percent, None included.
SortInputs ==
    UNION {{[i \in 1..n |-> RawProcess(i, ms[i] = MemoryNone, ms[i])] :
               ms \in [1..n -> MemoryPercents \cup {MemoryNone}]} :
           n \in 0..MaxProcs}

\* Process lists for the enrichment: one process with every combination of
\* readable and unreadable fields, before a process that can be read.
EnrichInputs ==
    {<< [RawProcess(1, FALSE, 5) EXCEPT
             !.info_ok = a[1], !.ppid_ok = a[2], !.uptime_ok = a[3],
             !.cwd_ok = a[4], !.io_ok = a[5], !.cmdline = c],
        RawProcess(2, FALSE, 9) >> :
        a \in [1..5 -> BOOLEAN], c \in {"read", "empty", "fails"}}

\* The refresh is entered; process_iter will give `raw`, and raise before
\* item `stop` (0: it does not raise).
ProcessesCall(raw, stop) ==
    [name |-> "get_top_processes", raw |-> raw, stop |-> stop,
     done |-> FALSE, processes |-> <<>>]

\* lines 218-288: the list is collected, sorted and stored
TopProcessesRefresh ==
    /\ fn.name = "get_top_processes" /\ ~fn.done
    /\ LET processes == Appended(fn.raw, 1, fn.stop)
       IN  fn' = [fn EXCEPT !.done = TRUE,
                            !.processes = Sorted(processes, Len(processes))]
    /\ UNCHANGED loaded

\* ---- get_size (lines 163-168).  A byte count is m * 1024^e: the counts
\* of interest reach 2^60, which the model's integers do not.
Factor == 1024
Units == <<"", "K", "M", "G", "T", "P">>
Suffix == "B"

RECURSIVE PowFactor(_)
PowFactor(n) == IF n = 0 THEN 1 ELSE Factor * PowFactor(n - 1)

\* The mantissas of the model (all below 1024^3) and the largest exponent.
ByteMantissas == {0, 1, 128, 1023, 1024, 1258291, 1048575}
MaxScale == 6

\* line 166: bytes < factor
BelowFactor(b) ==
    \/ b.m = 0
    \/ b.e <= 0 /\ b.m < PowFactor(1 - b.e)

\* line 168: bytes /= factor
Divided(b) == [b EXCEPT !.e = b.e - 1]

\* The hundredths ':.2f' prints of a value below 1024: the nearest, and the
\* even one of two equally near (the quotient is exact in binary).
Hundredths(b) ==
    IF b.m = 0 THEN 0
    ELSE LET d == PowFactor(0 - b.e)
             q == (100 * b.m) \div d
             r == (100 * b.m) % d
         IN  IF 2 * r > d \/ (2 * r = d /\ q % 2 = 1) THEN q + 1 ELSE q

\* line 167: f"{bytes:.2f} {unit}i{suffix}"
Formatted(b, unit) ==
    LET h == Hundredths(b)
    IN  ToString(h \div 100) \o "." \o ToString((h % 100) \div 10)
            \o ToString(h % 10) \o " " \o unit \o "i" \o Suffix

\* What get_size returns: a text, or None when the loop ends unreturned.
Text(t) == [present |-> TRUE, text |-> t]
None == [present |-> FALSE, text |-> ""]

SizeCall(m, e) ==
    [name |-> "get_size", arg |-> [m |-> m, e |-> e],
     bytes |-> [m |-> m, e |-> e], unit |-> 1, done |-> FALSE,
     result |-> None]

\* lines 165-168: one iteration of the loop over the units
GetSizeUnit ==
    /\ fn.name = "get_size" /\ ~fn.done
    /\ fn.unit <= Len(Units)
    /\ fn' = IF BelowFactor(fn.bytes)
             THEN [fn EXCEPT !.done = TRUE,
                             !.result = Text(Formatted(fn.bytes,
                                                       Units[fn.unit]))]
             ELSE [fn EXCEPT !.bytes = Divided(fn.bytes),
                             !.unit = fn.unit + 1]
    /\ UNCHANGED loaded

\* line 165 when the units are used up: the function ends without a return
GetSizeEnds ==
    /\ fn.name = "get_size" /\ ~fn.done
    /\ fn.unit > Len(Units)
    /\ fn' = [fn EXCEPT !.done = TRUE, !.result = None]
    /\ UNCHANGED loaded

GetSize == GetSizeUnit \/ GetSizeEnds

(***************************************************************************)
(* Specifications.  The tracker, the caches and the server are explored    *)
(* one at a time, the others left as they are after module load; the       *)
(* specifications of the server differ in the host they start on.          *)
(***************************************************************************)
\* collect_stats calls in a behaviour.
MaxCollects == 2

\* Enough calls to fill a history buffer and push twice more.
RingCollects == Capacity + 2

NoPowerSupply == [exists |-> FALSE, supplies |-> <<>>]

Battery == [exists |-> TRUE,
            supplies |-> << Supply(TRUE, 7500000, FALSE, 0, 0) >>]

NoPowercap == [exists |-> FALSE, dirs |-> <<>>]

PackageAndCore ==
    CHOOSE f \in FsChoices :
        f.exists /\ Len(f.dirs) = 3 /\ f.dirs[1].d = "intel-rapl"

\* Requested intervals: 0.01, 0.1, 1, 60, 120 seconds, and nan.
Intervals == {Float(1), Float(10), Float(100), Float(6000), Float(12000), NaN}

\* A host on which nothing is asked of the server.
QuietHost ==
    Env({}, TRUE, NoPowerSupply, {1}, {0}, {"A"}, {100000}, {Float(100)},
        {TRUE}, {FALSE}, 0)

InitRapl == RaplInit /\ CacheLoaded("process") /\ ServerLoaded(QuietHost)

RaplNext == GetPowerStats

SpecRapl == InitRapl /\ [][RaplNext]_vars

InitCache ==
    /\ RaplConstructed(NoPowercap, 0)
    /\ \E c \in Caches : CacheLoaded(c)
    /\ ServerLoaded(QuietHost)

CacheNext ==
    \/ GetTopProcesses
    \/ GetConnectionStates
    \/ GetSshStats
    \/ GetGpuInfo
    \/ DiskPartitions

SpecCache == InitCache /\ [][CacheNext]_vars

\* ---- one caller of /api/stats at a time
\* The failing sub-collectors of a host: any of those collect_stats wraps
\* in a try, or one of the others, or all.
FaultSets ==
    (SUBSET {"sensors", "fans", "battery", "rapl"})
        \cup {{x} : x \in Collectors} \cup {Collectors}

\* Hosts with failing sub-collectors, with and without CPU core sensors.
FaultyHosts ==
    {Env(f, ct, Battery, {1}, {0}, {"A"}, {100000}, {Float(100)},
         {TRUE}, {FALSE}, MaxCollects) : f \in FaultSets, ct \in BOOLEAN}

\* Hosts whose cached values change between refreshes.
BusyHosts ==
    {Env({"rapl"}, TRUE, Battery, {1, 11}, {0}, {"A", "B"}, {100000},
         {Float(100)}, {TRUE}, BOOLEAN, MaxCollects)}

\* Hosts that differ in their power sources.
PowerHosts ==
    {Env({}, TRUE, ps, {0, 1}, {0}, {"A"}, Energies, {Float(100)},
         {TRUE}, {FALSE}, MaxCollects) : ps \in SupplyChoices}

\* A steady host polled once a second.
RingHosts ==
    {Env({"rapl"}, ct, Battery, {1}, {0}, {"A"}, {100000}, {Float(100)},
         {TRUE}, {FALSE}, RingCollects) : ct \in BOOLEAN}

InitCollect ==
    /\ CacheLoaded("process")
    /\ \/ \E e \in FaultyHosts \cup BusyHosts :
             RaplConstructed(PackageAndCore, 0) /\ ServerLoaded(e)
       \/ \E e \in PowerHosts, f \in FsChoices :
             RaplConstructed(f, 0) /\ ServerLoaded(e)

CollectStats(c) ==
    \/ Cpu(c)
    \/ Sensors(c)
    \/ TempAppend(c)
    \/ Power(c)
    \/ Memory(c)
    \/ MemAppend(c)
    \/ NetIo(c)
    \/ BootTime(c)
    \/ RefreshCheck(c)
    \/ RefreshStore(c)
    \/ Return(c)

CollectNext == Request("api1") \/ CollectStats("api1")

SpecCollect == InitCollect /\ [][CollectNext]_vars

InitRing ==
    /\ CacheLoaded("process")
    /\ \E e \in RingHosts :
          RaplConstructed(PackageAndCore, 0) /\ ServerLoaded(e)

SpecRing == InitRing /\ [][CollectNext]_vars

\* ---- with a consumer that changes what it was given
ConsumerHosts ==
    {Env({"rapl"}, ct, Battery, {1}, {0}, {"A"}, {100000}, {Float(100)},
         {TRUE}, {FALSE}, MaxCollects) : ct \in BOOLEAN}

InitConsumer ==
    /\ CacheLoaded("process")
    /\ \E e \in ConsumerHosts :
          RaplConstructed(NoPowercap, 0) /\ ServerLoaded(e)

ConsumerNext == CollectNext \/ Mutate("api1")

SpecConsumer == InitConsumer /\ [][ConsumerNext]_vars

\* ---- concurrent callers
ServeHosts ==
    {Env({"rapl"}, TRUE, Battery, {1, 11}, {0}, {"A"}, {100000},
         {Float(100)}, BOOLEAN, {FALSE}, MaxCollects)}

InitServe ==
    /\ CacheLoaded("process")
    /\ \E e \in ServeHosts :
          RaplConstructed(NoPowercap, 0) /\ ServerLoaded(e)

ServeNext ==
    \E c \in Callers :
        \/ Request(c)
        \/ InfoRequest(c)
        \/ Connect(c)
        \/ Clamp(c)
        \/ LoopTop(c)
        \/ CollectStats(c)
        \/ Send(c)
        \/ Sleep(c)
        \/ Wake(c)
        \/ BackoffWake(c)

SpecServe == InitServe /\ [][ServeNext]_vars

\* ---- one push session, for every requested interval
PushHosts ==
    {Env({"rapl"}, TRUE, Battery, {1}, {0, 1}, {"A"}, {100000}, {i},
         BOOLEAN, {FALSE}, MaxCollects + 1) : i \in Intervals}
    \cup {Env({"rapl", "cpu"}, TRUE, Battery, {1}, {0}, {"A"}, {100000},
               {Float(100)}, BOOLEAN, {FALSE}, MaxCollects + 1)}

InitPush ==
    /\ CacheLoaded("process")
    /\ \E e \in PushHosts :
          RaplConstructed(NoPowercap, 0) /\ ServerLoaded(e)

WebsocketEndpoint(c) ==
    \/ Connect(c)
    \/ Clamp(c)
    \/ LoopTop(c)
    \/ CollectStats(c)
    \/ Send(c)
    \/ Sleep(c)
    \/ Wake(c)
    \/ BackoffWake(c)

PushNext == WebsocketEndpoint("ws1") \/ Disconnect("ws1")

SpecPush == InitPush /\ [][PushNext]_vars

\* The event loop resumes a coroutine that is ready to run.
FairPush == SpecPush /\ WF_vars(WebsocketEndpoint("ws1"))

\* ---- build_process_tree on every list of at most MaxProcs processes
InitTree ==
    /\ CacheLoaded("process")
    /\ RaplConstructed(NoPowercap, 0)
    /\ \E ps \in ProcessLists : Started(QuietHost, TreeCall(ps))

SpecTree == InitTree /\ [][BuildProcessTree]_vars

\* A call that has not returned takes its next step.
FairTree == SpecTree /\ WF_vars(BuildProcessTree)

\* ---- one refresh of the process table
InitProcesses ==
    /\ CacheLoaded("process")
    /\ RaplConstructed(NoPowercap, 0)
    /\ \E raw \in SortInputs \cup EnrichInputs : \E stop \in 0..Len(raw) :
          Started(QuietHost, ProcessesCall(raw, stop))

SpecProcesses == InitProcesses /\ [][TopProcessesRefresh]_vars

\* ---- one call of get_size
InitSize ==
    /\ CacheLoaded("process")
    /\ RaplConstructed(NoPowercap, 0)
    /\ \E m \in ByteMantissas : \E e \in 0..MaxScale :
          Started(QuietHost, SizeCall(m, e))

SpecSize == InitSize /\ [][GetSize]_vars

(***************************************************************************)
(* Properties of RaplReader.get_power_stats.  They speak of the last call: *)
(* its clock value `now`, the registers it read (`reads`), the dictionary  *)
(* it was entered with (`prev_readings`) and what it returned (`stats`).   *)
(***************************************************************************)
Called == calls > 0

DomainSet == {domains[i] : i \in 1..Len(domains)}

\* last_readings as the domain loop of the last call found it: what the
\* cleanup pass, if it ran, left of prev_readings.
PriorAtLoop ==
    IF pruned
    THEN [p \in {q \in DOMAIN prev_readings :
                    now - prev_readings[q][1] <= StaleAfter}
            |-> prev_readings[p]]
    ELSE prev_readings

Readable(d) == d.path \in DOMAIN reads
HadPrior(d) == d.path \in DOMAIN PriorAtLoop
Dt(d) == now - PriorAtLoop[d.path][1]
RawDe(d) == reads[d.path] - PriorAtLoop[d.path][2]
De(d) == IF RawDe(d) < 0 THEN RawDe(d) + d.max_range ELSE RawDe(d)
Valid(d) == Dt(d) > 0 /\ De(d) >= 0
\* round((de / 1e6) / dt, 2) in hundredths of a watt
Watts(d) == Round2(De(d), Dt(d))

\* C1 (as claimed): for every domain with a prior reading that is readable
\* in the call, the returned mapping holds exactly round((de/1e6)/dt, 2)
\* for that domain when dt > 0 and the corrected de >= 0, and holds no
\* entry for that domain when dt <= 0 or the corrected de < 0.
C1_ResultHoldsWattagePerDomain ==
    \A d \in DomainSet :
        (Readable(d) /\ HadPrior(d)) =>
            IF Valid(d)
            THEN d.name \in DOMAIN stats /\ stats[d.name] = Watts(d)
            ELSE d.name \notin DOMAIN stats

\* C2: the delta used for the wattage is current - prior, plus max_range
\* exactly once when current < prior and with no correction otherwise; the
\* wattage assigned for the domain is computed from that delta.
C2_WraparoundAddedOnce ==
    \A d \in DomainSet :
        (Readable(d) /\ HadPrior(d)) =>
            /\ d.path \in DOMAIN delta
            /\ delta[d.path] =
                   IF reads[d.path] < PriorAtLoop[d.path][2]
                   THEN reads[d.path] - PriorAtLoop[d.path][2] + d.max_range
                   ELSE reads[d.path] - PriorAtLoop[d.path][2]
            /\ d.path \in DOMAIN emitted =>
                   emitted[d.path] = Round2(delta[d.path], Dt(d))

\* The spec's example at the model's scale (max = 1000000, prior = 500000,
\* current = 100000 gives de = 600000): a wrapped register was read.
C2_Witness ==
    \E d \in DomainSet :
        /\ Readable(d) /\ HadPrior(d)
        /\ d.max_range = 1000000
        /\ PriorAtLoop[d.path][2] = 500000 /\ reads[d.path] = 100000
        /\ delta[d.path] = 600000
        /\ d.path \in DOMAIN emitted

\* C3: every wattage in a returned mapping is >= 0, whatever the counter
\* values (wraps, max_range = 0) and the clock did.
C3_WattageNonNegative ==
    /\ \A n \in DOMAIN stats : stats[n] >= 0
    /\ \A p \in DOMAIN emitted : emitted[p] >= 0

\* A call that discarded a wrapped reading of a domain with max_range = 0
\* and still returned a wattage.
C3_Witness ==
    /\ stats # EmptyMap
    /\ \E d \in DomainSet :
          /\ Readable(d) /\ HadPrior(d)
          /\ d.max_range = 0 /\ RawDe(d) < 0
          /\ d.path \notin DOMAIN emitted

\* C4: a successful read of a domain without a prior reading (none yet, or
\* pruned) stores the reading and assigns no wattage for the domain; a
\* wattage is assigned for a domain only in a call that follows an earlier
\* successful read of that domain.
C4_FirstReadEmitsNothing ==
    /\ \A d \in DomainSet :
          (Readable(d) /\ ~HadPrior(d)) =>
              /\ d.path \notin DOMAIN emitted
              /\ d.path \in DOMAIN last_readings
              /\ last_readings[d.path] = <<now, reads[d.path]>>
    /\ DOMAIN emitted \subseteq read_before
    /\ stats # EmptyMap => DOMAIN emitted # {}

\* A first read after the reading was pruned, in a call that assigned a
\* wattage for another domain.
C4_Witness ==
    /\ pruned
    /\ emitted # EmptyMap
    /\ \E d \in DomainSet :
          /\ Readable(d) /\ ~HadPrior(d)
          /\ d.path \in DOMAIN prev_readings

\* C5: after a call that read a domain's register, the stored reading of
\* the domain is (now, value read), whether a wattage was assigned or not.
C5_ReadingAlwaysOverwritten ==
    \A d \in DomainSet :
        Readable(d) =>
            /\ d.path \in DOMAIN last_readings
            /\ last_readings[d.path] = <<now, reads[d.path]>>

\* A call that discarded a delta (clock not advanced) and overwrote a
\* different stored reading.
C5_Witness ==
    \E d \in DomainSet :
        /\ Readable(d) /\ HadPrior(d)
        /\ Dt(d) <= 0
        /\ d.path \notin DOMAIN emitted
        /\ PriorAtLoop[d.path] # <<now, reads[d.path]>>

\* The call of the last step had the unreadable domains not been in
\* self.domains.
ReadableDomains == SelectSeq(domains, Readable)
WithoutUnreadable ==
    DomainLoop(ReadableDomains, 1,
               [st |-> EmptyMap, lr |-> PriorAtLoop,
                em |-> EmptyMap, de |-> EmptyMap], reads, now)

\* C6 (as claimed): a domain whose register cannot be read gets no wattage
\* and its stored prior reading is the one the call was entered with.
C6_UnreadableReadingUnchanged ==
    \A d \in DomainSet :
        ~Readable(d) =>
            /\ d.path \notin DOMAIN emitted
            /\ (d.path \in DOMAIN last_readings) = (d.path \in DOMAIN prev_readings)
            /\ d.path \in DOMAIN last_readings =>
                   last_readings[d.path] = prev_readings[d.path]

\* C6 (amended): a domain whose register cannot be read gets no wattage and
\* its stored reading is what the call's cleanup pass left of it (removed
\* only by a cleanup pass that found it older than 60 s, unchanged
\* otherwise); the other domains are processed as if that domain were not
\* in the list.
C6_UnreadableSkipped ==
    /\ \A d \in DomainSet :
          ~Readable(d) =>
              /\ d.path \notin DOMAIN emitted
              /\ (d.path \in DOMAIN last_readings) = (d.path \in DOMAIN PriorAtLoop)
              /\ d.path \in DOMAIN last_readings =>
                     last_readings[d.path] = PriorAtLoop[d.path]
              /\ ~pruned => PriorAtLoop = prev_readings
              /\ (d.path \in DOMAIN prev_readings /\ d.path \notin DOMAIN last_readings)
                     => pruned /\ now - prev_readings[d.path][1] > StaleAfter
    /\ stats = WithoutUnreadable.st
    /\ emitted = WithoutUnreadable.em
    /\ \A d \in DomainSet :
          Readable(d) => last_readings[d.path] = WithoutUnreadable.lr[d.path]

\* A domain with a stored reading could not be read in a call that assigned
\* a wattage for another domain.
C6_Witness ==
    /\ emitted # EmptyMap
    /\ \E d \in DomainSet :
          /\ ~Readable(d)
          /\ d.path \in DOMAIN prev_readings
          /\ d.path \in DOMAIN last_readings

\* C7: the cleanup pass runs in exactly the calls that raise the call
\* counter above 300, and resets the counter to 0; right after a call with
\* a cleanup pass no stored reading is more than 60 s older than the
\* call's now; a call without a cleanup pass removes no stored reading.
C7_PrunePeriodic ==
    /\ [](Called =>
            /\ cleanup_counter \in 0..CleanupEvery
            /\ pruned => /\ cleanup_counter = 0
                         /\ \A p \in DOMAIN last_readings :
                               now - last_readings[p][1] <= StaleAfter
            /\ ~pruned => /\ cleanup_counter >= 1
                          /\ DOMAIN prev_readings \subseteq DOMAIN last_readings)
    /\ [][/\ pruned' = (cleanup_counter + 1 > CleanupEvery)
           /\ cleanup_counter' = IF cleanup_counter + 1 > CleanupEvery
                                  THEN 0 ELSE cleanup_counter + 1]_raplVars

\* A cleanup pass removed the stale reading of a domain that could not be
\* read and kept a reading that was exactly 60 s old.
C7_Witness ==
    /\ pruned
    /\ \E p \in DOMAIN prev_readings : p \notin DOMAIN last_readings
    /\ \E p \in DOMAIN last_readings : now - last_readings[p][1] = StaleAfter

\* C8: the domain list is the one construction found and no call changes
\* it; without a powercap directory it is empty and every call returns an
\* empty mapping.
C8_DomainsFixed ==
    /\ [](/\ domains = InitDomains(fs)
          /\ ~fs.exists => /\ domains = <<>>
                           /\ stats = EmptyMap
                           /\ last_readings = EmptyMap)
    /\ [][domains' = domains /\ fs' = fs]_raplVars

\* Calls were made without a powercap directory.
C8_Witness == ~fs.exists /\ calls >= 2

(***************************************************************************)
(* Properties of the aged caches.  They speak of the last read: the cache  *)
(* it read (last_read.cache), the clock at its staleness test (at), the    *)
(* refresh time and the value it found (last_before, val_before), whether  *)
(* it ran the computation (ran), whether that succeeded (ok), and what it  *)
(* returned (ret) or whether it raised.                                    *)
(***************************************************************************)
HasRead == last_read.cache # "none"

\* The staleness window of the refresh the last read found had elapsed.
WindowElapsed ==
    last_read.at - last_read.last_before > Threshold(last_read.cache)

\* C9 (as claimed): for each aged cache, a read within the staleness window
\* of the last refresh does not run the computation again, whatever value
\* that refresh stored (an empty one included), and a read after the
\* window has elapsed runs it.
C9_OneComputationPerWindow ==
    HasRead => (last_read.ran <=> WindowElapsed)

\* C10 (as claimed): for each aged cache holding a computed value, when the
\* computation fails during a refresh the stored value is unchanged, the
\* read returns the last value computed without a failure, and nothing is
\* raised to the caller.
C10_FailureKeepsLastGood ==
    (/\ HasRead /\ last_read.ran /\ ~last_read.ok
     /\ good[last_read.cache] # "none") =>
        /\ CacheValue(last_read.cache) = last_read.val_before
        /\ ~last_read.raised
        /\ last_read.ret = good[last_read.cache]

\* The last read assigned the result of its own computation to the cache.
ComputedInRead ==
    /\ last_read.ran
    /\ computed_at[last_read.cache] # Never
    /\ computed_at[last_read.cache] >= last_read.at

\* C11 (as claimed): every value an aged cache read returns at time t was
\* either computed during that read, or is the most recently computed
\* value and was computed no more than the staleness threshold before t;
\* the refresh timestamp of a cache is never advanced without the value
\* having been recomputed.
C11_ReturnedValueFresh ==
    (HasRead /\ ~last_read.raised) =>
        LET c == last_read.cache
        IN  /\ \/ ComputedInRead
               \/ /\ computed_at[c] # Never
                  /\ last_read.ret = CacheValue(c)
                  /\ last_read.at - computed_at[c] <= Threshold(c)
            /\ LastRefresh(c) # last_read.last_before => ComputedInRead

(***************************************************************************)
(* Properties of the server: the handlers, collect_stats and the history   *)
(* buffers.                                                                *)
(***************************************************************************)
\* The callers inside the computation under the staleness test of cache k.
Recomputing(k) == {c \in Callers : pc[c] = StorePc(k)}

\* The callers that have started a handler and not finished it.
InFlight == {c \in Callers : pc[c] # "idle"}

\* C12: with concurrent /api/stats and /api/info requests and /ws/stats
\* sessions, at most one recomputation of a cache is in progress at any
\* time, and while it is in progress no other caller is at the staleness
\* test of that cache or inside its recomputation.
C12_OneRecomputationAtATime ==
    \A k \in Caches :
        \A c \in Recomputing(k) :
            \A d \in Callers \ {c} :
                pc[d] \notin {CheckPc(k), StorePc(k)}

\* A recomputation of the process table in progress while a push session
\* and another request are in flight.
C12_Witness ==
    \E c \in Recomputing("process") :
        /\ Cardinality(InFlight) >= 2
        /\ \E d \in InFlight \ {c} : result[d].kind = "snapshot"

\* The last n items of s.
LastOf(s, n) == SubSeq(s, Len(s) - n + 1, Len(s))

\* What a buffer of 60 holds after the pushes in `pushed`.
Kept(pushed) ==
    LastOf(pushed, IF Len(pushed) < Capacity THEN Len(pushed) ELSE Capacity)

Items(s) == {s[i] : i \in 1..Len(s)}

\* C13: a history buffer never holds more than 60 samples, and it holds
\* the last min(60, pushes) pushed samples in push order: a push onto a
\* full buffer removes exactly the oldest sample and appends the new one.
C13_BufferKeepsLastSixty ==
    /\ Len(memory_history) <= Capacity
    /\ Len(cpu_temp_history) <= Capacity
    /\ memory_history = Kept(mem_pushed)
    /\ cpu_temp_history = Kept(temp_pushed)

\* 61 pushes onto each buffer: 60 samples are held, the first pushed is
\* absent and the last pushed is present.
C13_Witness ==
    /\ Len(mem_pushed) = Capacity + 1
    /\ Len(memory_history) = Capacity
    /\ mem_pushed[1] \notin Items(memory_history)
    /\ memory_history[Capacity] = mem_pushed[Capacity + 1]
    /\ Len(temp_pushed) = Capacity + 1
    /\ temp_pushed[1] \notin Items(cpu_temp_history)
    /\ cpu_temp_history[Capacity] = temp_pushed[Capacity + 1]

\* The samples with the identities in `ids` are in the order of their
\* "time" fields.
Chronological(ids) ==
    \A i, j \in 1..Len(ids) : i < j => heap[ids[i]].time <= heap[ids[j]].time

\* C14: in every snapshot collect_stats has returned, whatever the
\* interleaving of the /api/stats callers and the /ws/stats session, the
\* memory history and the CPU temperature history are each ordered by
\* non-decreasing sample timestamp.
C14_HistoriesChronological ==
    \A c \in Callers :
        result[c].kind = "snapshot" =>
            /\ Chronological(result[c].snap.history)
            /\ Chronological(result[c].snap.temp_history)

\* A snapshot whose histories hold the samples of two callers, taken at
\* different times, while another handler is in flight.
C14_Witness ==
    \E c \in Callers :
        /\ result[c].kind = "snapshot"
        /\ Len(result[c].snap.history) = 2
        /\ Len(result[c].snap.temp_history) = 2
        /\ heap[result[c].snap.history[1]].time
               < heap[result[c].snap.history[2]].time
        /\ \E d \in Callers \ {c} : result[d].kind = "snapshot"
        /\ InFlight # {}

\* The calls of collect_stats that have returned a snapshot (the last one
\* of each caller).
Returned == {c \in Callers : result[c].kind = "snapshot"}

\* C15 as stated: every collect_stats call that returns a snapshot appends
\* exactly one sample to the memory history and exactly one sample to the
\* CPU temperature history, whether or not a cache was refreshed.
C15_OneSampleEachPerCall ==
    \A c \in Returned :
        /\ result[c].mem_appended = 1
        /\ result[c].temp_appended = 1

\* C15 amended: every collect_stats call that returns a snapshot appends
\* exactly one sample to the memory history, and to the CPU temperature
\* history exactly one sample when sensors_temperatures() answered with CPU
\* core entries and none otherwise, whether or not a cache was refreshed.
C15_OneSamplePerCallWhereMeasured ==
    \A c \in Returned :
        /\ result[c].mem_appended = 1
        /\ result[c].temp_appended =
               IF "sensors" \notin env.failing /\ env.core_temps THEN 1 ELSE 0

\* A call that refreshed no cache on a host without CPU core sensors: one
\* memory sample, no temperature sample.
C15_Witness ==
    \E c \in Returned :
        /\ result[c].refreshed = {}
        /\ ~env.core_temps
        /\ result[c].mem_appended = 1
        /\ result[c].temp_appended = 0
        /\ Len(mem_pushed) = 2

\* The samples a history buffer holds are as collect_stats wrote them.
AsWritten(buf) == \A id \in Items(buf) : heap[id] = pristine[id]

\* C16: the history sequences of a snapshot are copies: whatever a consumer
\* does to a returned history sequence or to its samples, the history
\* buffers hold the samples collect_stats pushed, as it wrote them.
C16_ConsumerCannotChangeBuffer ==
    /\ memory_history = Kept(mem_pushed)
    /\ cpu_temp_history = Kept(temp_pushed)
    /\ AsWritten(memory_history)
    /\ AsWritten(cpu_temp_history)

\* C17: a snapshot collect_stats has returned is not changed by later
\* collect_stats calls or cache refreshes: its processes, ssh_stats,
\* connection_states, history and power sections hold what they held when
\* it was returned.
C17_SnapshotNeverChanges ==
    held.has => Content(heap, held.snap) = held.content

\* A kept snapshot, and a later call that pushed new samples and refreshed
\* the process table to a different value.
C17_Witness ==
    /\ held.has
    /\ \E c \in Returned :
          /\ result[c].snap # held.snap
          /\ "process" \in result[c].refreshed
          /\ heap[result[c].snap.processes] # heap[held.snap.processes]
          /\ Len(result[c].snap.history) > Len(held.snap.history)

\* C18: collect_stats and the /api/stats handler never raise: whichever
\* sub-collectors fail (CPU, memory, disk partitions, network counters,
\* sensors, fans, battery, RAPL, boot time), the call ends with a snapshot.
C18_CollectNeverRaises ==
    \A c \in Callers : result[c].kind # "raised"

\* The power section of the snapshot caller c was given.
PowerOf(c) == heap[result[c].snap.power].val

\* C19: in each collect_stats call, if the RAPL wattages of the domains
\* whose name contains "Package" sum to a non-zero total, the power_supply
\* fallback is not evaluated and consumption_watts is that total; the
\* fallback is evaluated only when the total is zero or get_power_stats
\* returned nothing.
C19_PowerSourcesExclusive ==
    \A c \in Returned :
        /\ result[c].total # 0 =>
               /\ ~PowerOf(c).fallback
               /\ PowerOf(c).consumption_watts = Watts4(100 * result[c].total)
        /\ PowerOf(c).fallback =>
               \/ result[c].total = 0
               \/ PowerOf(c).rapl = EmptyMap

\* A call with a non-zero package total on a host whose power supply
\* reports a different wattage.
C19_Witness ==
    \E c \in Returned :
        /\ result[c].total # 0
        /\ env.supplies.exists
        /\ SuppliesMicroWatts(env.supplies.supplies, 1) > 0
        /\ Round4(SuppliesMicroWatts(env.supplies.supplies, 1))
               # 100 * result[c].total
        /\ ~PowerOf(c).fallback

\* The push sessions that have entered their loop.
Pushing == {c \in Callers : Kind(c) = "ws" /\ pc[c] \notin {"idle", "accepting"}}

\* C20: for every requested interval, the interval a push session uses,
\* on every iteration of its loop, lies in [0.1, 60]: 0.1 for a request
\* below 0.1, 60 for a request above 60, the request itself otherwise.
C20_IntervalWithinBounds ==
    \A c \in Pushing :
        LET r == loc[c].requested
            u == loc[c].interval
        IN  /\ ~u.nan
            /\ MinInterval <= u.v /\ u.v <= MaxInterval
            /\ Lt(r, Float(MinInterval)) => u = Float(MinInterval)
            /\ Gt(r, Float(MaxInterval)) => u = Float(MaxInterval)
            /\ (~Lt(r, Float(MinInterval)) /\ ~Gt(r, Float(MaxInterval)))
                   => u = r

(***************************************************************************)
(* More properties of RaplReader.                                          *)
(***************************************************************************)
\* C30: in every state of the tracker the keys of last_readings are paths
\* of domains of self.domains, so it never holds more readings than there
\* are domains, whether or not the cleanup pass has run.
C30_ReadingsWithinDomains ==
    /\ DOMAIN last_readings \subseteq Paths(domains)
    /\ Cardinality(DOMAIN last_readings) <= Len(domains)

\* A call that ran the cleanup pass and left one reading per domain.
C30_Witness ==
    /\ pruned
    /\ Len(domains) >= 2
    /\ Cardinality(DOMAIN last_readings) = Len(domains)

(***************************************************************************)
(* Properties of build_process_tree.                                       *)
(***************************************************************************)
TreeDone == fn.name = "build_process_tree" /\ fn.phase = "done"

\* The positions of the processes whose pid is q.
WithPid(q) == {k \in 1..Len(fn.processes) : fn.processes[k].pid = q}

\* Process k has no parent in the list: its ppid is no pid of the list
\* (the no-parent value 0 included).
Parentless(k) == WithPid(Ppid(fn.processes[k])) = {}

\* C25: build_process_tree returns as roots exactly the processes whose
\* ppid is not the pid of a process of the input or is 0, each once, and
\* every other process is in the children list of the process whose pid is
\* its ppid, and in no other.
C25_RootsAndChildren ==
    TreeDone =>
        /\ \A k \in 1..Len(fn.processes) :
               /\ Parentless(k) <=>
                      Cardinality({j \in 1..Len(fn.root_processes) :
                                      fn.root_processes[j] = k}) = 1
               /\ ~Parentless(k) => k \notin Items(fn.root_processes)
               /\ \A q \in 1..Len(fn.processes) :
                      k \in Items(fn.children[q])
                          <=> fn.processes[q].pid = Ppid(fn.processes[k])

\* The tree of [{pid:1,ppid:0},{pid:2,ppid:1},{pid:3,ppid:99}]: the roots
\* are pid 1 and pid 3, and pid 2 is a child of pid 1.
C25_Witness ==
    /\ TreeDone
    /\ fn.processes = << Proc(1, TRUE, 0), Proc(2, TRUE, 1),
                         Proc(3, TRUE, AbsentPid) >>
    /\ fn.root_processes = <<1, 3>>
    /\ fn.children[1] = <<2>>

\* C26: build_process_tree returns on every list of processes, cycles and
\* self-parent entries of the pid/ppid relation included, after three
\* passes over the list (a number of steps linear in its length).
C26_TreeTerminatesInLinearSteps ==
    /\ [](fn.steps <= TreeSteps(Len(fn.processes)))
    /\ <>TreeDone

\* The call has returned on a list in which a process is its own parent
\* and two others are each other's parent.
C26_Witness ==
    /\ TreeDone
    /\ Len(fn.processes) = 3
    /\ Ppid(fn.processes[1]) = 2
    /\ Ppid(fn.processes[2]) = 1
    /\ Ppid(fn.processes[3]) = 3
    /\ fn.steps = TreeSteps(3)

(***************************************************************************)
(* Properties of the process table refresh.                                *)
(***************************************************************************)
Refreshed == fn.name = "get_top_processes" /\ fn.done

\* The positions of the processes the loop appended a record for.
Collected ==
    {k \in 1..Len(fn.raw) :
        fn.raw[k].info_ok /\ (fn.stop = 0 \/ k < fn.stop)}

\* The position in the returned list of the record of process k.
PlaceOf(k) == CHOOSE j \in 1..Len(fn.processes) :
                  fn.processes[j].pid = fn.raw[k].pid

\* C27: the list get_top_processes holds after a refresh has one record
\* for each collected process and no other, in the order of non-increasing
\* memory_percent, a memory_percent of None counting as 0.
C27_ProcessesSortedByMemory ==
    Refreshed =>
        /\ Len(fn.processes) = Cardinality(Collected)
        /\ \A k \in Collected :
               \E j \in 1..Len(fn.processes) :
                   /\ fn.processes[j].pid = fn.raw[k].pid
                   /\ fn.processes[j].memory_percent =
                          IF fn.raw[k].mem_none THEN 0 ELSE fn.raw[k].mem
        /\ \A i, j \in 1..Len(fn.processes) :
               i < j => fn.processes[i].memory_percent
                            >= fn.processes[j].memory_percent

\* Three processes collected in the order None, 9, 5 come back in the
\* order 9, 5, None.
C27_Witness ==
    /\ Refreshed
    /\ Len(fn.raw) = 3 /\ Collected = {1, 2, 3}
    /\ fn.raw[1].mem_none /\ fn.raw[2].mem = 9 /\ fn.raw[3].mem = 5
    /\ fn.processes[1].pid = 2
    /\ fn.processes[2].pid = 3
    /\ fn.processes[3].pid = 1

\* What a field that was read holds, and what one that was not holds.
FieldAsRead(ok, v) == ok => v = "read"
FieldDegraded(ok, v) == ~ok => v = Placeholder

\* C28 as stated: a failure to read one enrichment field (uptime, working
\* directory, command line, I/O counters, parent pid) puts the placeholder
\* in that field only (for I/O: in both of its fields) and leaves the other
\* fields as read; no such failure removes the record.
C28_FieldFailsAlone ==
    Refreshed =>
        \A k \in Collected :
            LET rp == fn.raw[k]
                p == fn.processes[PlaceOf(k)]
            IN  /\ FieldAsRead(rp.uptime_ok, p.uptime)
                /\ FieldAsRead(rp.cwd_ok, p.cwd)
                /\ FieldAsRead(rp.cmdline = "read", p.cmdline)
                /\ FieldAsRead(rp.io_ok, p.io_read)
                /\ FieldAsRead(rp.io_ok, p.io_write)
                /\ rp.ppid_ok => p.ppid = ToString(rp.ppid)
                /\ FieldDegraded(rp.uptime_ok, p.uptime)
                /\ FieldDegraded(rp.cwd_ok, p.cwd)
                /\ FieldDegraded(rp.cmdline = "read", p.cmdline)
                /\ FieldDegraded(rp.io_ok, p.io_read)
                /\ FieldDegraded(rp.io_ok, p.io_write)
                /\ FieldDegraded(rp.ppid_ok, p.ppid)

\* C28 amended: when psutil.Process(pid) and ppid() answer, a failure to
\* read the uptime, the working directory, the command line or the I/O
\* counters puts the placeholder in that field only (for I/O: in both of
\* its fields) and leaves the other fields as read; when they do not, ppid
\* is 0 and those four fields all hold the placeholder; in both cases the
\* record stays in the list with its pid and memory_percent.
C28_FieldsDegradeUnderParentPid ==
    Refreshed =>
        /\ Len(fn.processes) = Cardinality(Collected)
        /\ \A k \in Collected :
            LET rp == fn.raw[k]
                p == fn.processes[PlaceOf(k)]
            IN  /\ p.pid = rp.pid
                /\ p.memory_percent = (IF rp.mem_none THEN 0 ELSE rp.mem)
                /\ p.ppid = (IF rp.ppid_ok THEN ToString(rp.ppid) ELSE "0")
                /\ rp.ppid_ok =>
                       /\ FieldAsRead(rp.uptime_ok, p.uptime)
                       /\ FieldAsRead(rp.cwd_ok, p.cwd)
                       /\ FieldAsRead(rp.cmdline = "read", p.cmdline)
                       /\ FieldAsRead(rp.io_ok, p.io_read)
                       /\ FieldAsRead(rp.io_ok, p.io_write)
                       /\ FieldDegraded(rp.uptime_ok, p.uptime)
                       /\ FieldDegraded(rp.cwd_ok, p.cwd)
                       /\ FieldDegraded(rp.cmdline = "read", p.cmdline)
                       /\ FieldDegraded(rp.io_ok, p.io_read)
                       /\ FieldDegraded(rp.io_ok, p.io_write)
                /\ ~rp.ppid_ok =>
                       {p.uptime, p.cwd, p.cmdline, p.io_read, p.io_write}
                           = {Placeholder}

\* A process whose working directory alone cannot be read keeps its record,
\* with the placeholder there and its other fields as read.
C28_Witness ==
    /\ Refreshed
    /\ \E k \in Collected :
          LET rp == fn.raw[k]
              p == fn.processes[PlaceOf(k)]
          IN  /\ rp.ppid_ok /\ ~rp.cwd_ok /\ rp.uptime_ok /\ rp.io_ok
              /\ rp.cmdline = "read"
              /\ p.cwd = Placeholder /\ p.cmdline = "read"
              /\ p.uptime = "read" /\ p.io_read = "read"
              /\ Len(fn.processes) = 2

(***************************************************************************)
(* Properties of get_size.                                                 *)
(***************************************************************************)
Sized == fn.name = "get_size" /\ fn.done

\* The number of divisions by 1024 that bring m * 1024^e below 1024.
Divisions(b) ==
    IF b.m = 0 THEN 0
    ELSE IF b.m < Factor THEN b.e
    ELSE IF b.m < Factor * Factor THEN b.e + 1
    ELSE b.e + 2

\* C29: get_size returns a formatted size for every non-negative byte
\* count: the count divided by 1024 until it is below 1024, with 2
\* decimals, and the unit of that many divisions followed by "iB"; no
\* count yields a missing result.
C29_SizeAlwaysFormatted ==
    Sized =>
        /\ fn.result.present
        /\ fn.unit = 1 + Divisions(fn.arg)
        /\ fn.result.text = Formatted(fn.bytes, Units[fn.unit])

(***************************************************************************)
(* Properties of the push loop of websocket_endpoint.                      *)
(***************************************************************************)
Sessions == {c \in Callers : Kind(c) = "ws"}

\* The session is between two iterations, or before its first.
BetweenIterations(c) ==
    pc[c] \in {"idle", "accepting", "loop", "sent", "sleeping", "backoff"}

PushLoopNeverReturns == [][\A c \in Pushing : pc'[c] # "idle"]_vars

\* C22: while the client is connected, no step ends the session; a
\* failure of collect_stats or of a send takes the loop to its 1 second
\* sleep, after which the loop goes to its next iteration, which calls
\* collect_stats again.
C22_FailureDoesNotEndSession ==
    [][\A c \in Pushing :
          session[c].peer = "open" =>
              /\ pc'[c] # "idle"
              /\ (\/ result'[c].raised > result[c].raised
                  \/ session'[c].failed > session[c].failed)
                     => pc'[c] = "backoff"
              /\ pc[c] = "backoff" /\ pc'[c] # "backoff"
                     => pc'[c] = "loop" /\ clock' = clock + 1
              /\ pc[c] = "loop" /\ pc'[c] # "loop"
                     => /\ pc'[c] = "collect"
                        /\ session'[c].started = session[c].started + 1]_vars

\* A send has succeeded after an earlier one failed.
C22_Witness ==
    \E c \in Pushing :
        /\ session[c].peer = "open"
        /\ session[c].failed >= 1
        /\ pc[c] = "sent"

\* C23: in one session every collect_stats call that has ended was
\* followed by one send of its result, or by none when it raised, before
\* the next call began: the calls begun are the sends made plus the calls
\* that raised, plus the one call whose send is still to come.
C23_CollectsOrderedWithSends ==
    \A c \in Sessions :
        LET s == session[c]
            ended == s.sends + result[c].raised
        IN  /\ s.failed <= s.sends
            /\ s.started = IF BetweenIterations(c) THEN ended ELSE ended + 1

\* The second collect_stats of a session has returned, its send is to
\* come, and the first snapshot was sent.
C23_Witness ==
    \E c \in Sessions :
        /\ pc[c] = "send"
        /\ session[c].started = 2
        /\ session[c].sends = 1

\* C24: the sleep after a successful collect-and-send is
\* max(0, interval - elapsed): never negative, and 0 when the collect and
\* the send took at least the interval.
C24_SleepsRestOfInterval ==
    \A c \in Sessions :
        pc[c] = "sleeping" =>
            LET l == loc[c]
                elapsed == 100 * (l.t - l.start_time)
            IN  /\ l.sleep_time >= 0
                /\ ~l.interval.nan =>
                       /\ elapsed < l.interval.v
                              => l.sleep_time = l.interval.v - elapsed
                       /\ elapsed >= l.interval.v => l.sleep_time = 0

\* A collect-and-send of one second in a session of interval 0.1 s: the
\* loop does not sleep.
C24_Witness ==
    \E c \in Sessions :
        /\ pc[c] = "sleeping"
        /\ loc[c].interval = Float(MinInterval)
        /\ loc[c].t - loc[c].start_time = 1
        /\ loc[c].sleep_time = 0

(***************************************************************************)
(* The entries of the mapping get_power_stats returns.                     *)
(***************************************************************************)
\* The domains that have a wattage in the last call: read, with a prior
\* reading, dt > 0 and the corrected de >= 0.
Measured == {d \in DomainSet : Readable(d) /\ HadPrior(d) /\ Valid(d)}

\* C31: the mapping a get_power_stats call returns has one entry for each
\* domain with a prior reading and a valid delta, also when two domains
\* stored under different paths carry the same display name.
C31_OneEntryPerMeasuredDomain ==
    Called => Cardinality(DOMAIN stats) = Cardinality(Measured)

(***************************************************************************)
(* The forest build_process_tree returns.                                  *)
(***************************************************************************)
Positions == 1..Len(fn.processes)

\* How often process k is in the forest: as a root or in a children list.
Occurrences(k) ==
    Cardinality({j \in 1..Len(fn.root_processes) : fn.root_processes[j] = k})
    + Cardinality({<<q, j>> \in Positions \X (1..MaxProcs + 1) :
                      j <= Len(fn.children[q]) /\ fn.children[q][j] = k})

\* The processes found by going down from `from` through children lists,
\* n levels deep.
RECURSIVE Descend(_, _)
Descend(from, n) ==
    IF n = 0 THEN from
    ELSE Descend(from \cup UNION {Items(fn.children[q]) : q \in from}, n - 1)

ReachedFromRoots == Descend(Items(fn.root_processes), Len(fn.processes))

\* Going up from process k by ppid, n times at most, ends at a process
\* with no parent in the list.
RECURSIVE Rooted(_, _)
Rooted(k, n) ==
    \/ Parentless(k)
    \/ /\ n > 0
       /\ Rooted(CHOOSE q \in WithPid(Ppid(fn.processes[k])) : TRUE, n - 1)

\* C32 as stated: every process of the input is in the forest exactly
\* once, as a root or in one children list, and is reached from some
\* root, on every input with unique pids.
C32_EveryProcessOnceAndReached ==
    TreeDone =>
        \A k \in Positions :
            Occurrences(k) = 1 /\ k \in ReachedFromRoots

\* C32 amended: every process of the input is in the forest exactly once,
\* as a root or in one children list; it is reached from a root exactly
\* when going up by ppid from it ends at a process without a parent in
\* the list, which a process that is its own parent, or on or under a
\* cycle of ppids, does not.
C32_OnceAndReachedUnlessCyclic ==
    TreeDone =>
        \A k \in Positions :
            /\ Occurrences(k) = 1
            /\ k \in ReachedFromRoots <=> Rooted(k, Len(fn.processes))

\* Process 1 is its own parent, process 2 is its child and process 3 has
\* no parent: the only root is 3, and 1 and 2 are once in the children
\* list of 1 and are not reached.
C32_Witness ==
    /\ TreeDone
    /\ Len(fn.processes) = 3
    /\ Ppid(fn.processes[1]) = 1
    /\ Ppid(fn.processes[2]) = 1
    /\ Ppid(fn.processes[3]) = 0
    /\ fn.root_processes = <<3>>
    /\ fn.children[1] = <<1, 2>>
    /\ ReachedFromRoots = {3}

\* C33: a second call of build_process_tree on the same list returns the
\* roots and leaves the children lists that the first call did, and no
\* children list holds a process twice.
C33_SecondCallSameForest ==
    TreeDone /\ fn.again =>
        /\ fn.root_processes = fn.first.roots
        /\ fn.children = fn.first.children
        /\ \A q \in Positions :
               Cardinality(Items(fn.children[q])) = Len(fn.children[q])

\* The second call has returned on a list in which process 1 has the
\* children 2 and 3.
C33_Witness ==
    /\ TreeDone /\ fn.again
    /\ fn.root_processes = <<1>>
    /\ fn.children[1] = <<2, 3>>
    /\ fn.first.children[1] = <<2, 3>>

\* C34: in a push session a collect_stats call begins only from the top of
\* the loop, and the top of the loop is reached, after the first time,
\* only by a coroutine that was suspended in the sleep between ticks (of 0
\* seconds or more) or in the 1 second back-off and is resumed by the
\* event loop; while it is suspended there the event loop is free for
\* other sessions and requests.
C34_SuspendsBetweenCollects ==
    [][\A c \in Sessions :
          /\ pc'[c] = "collect" /\ pc[c] # "collect" => pc[c] = "loop"
          /\ pc'[c] = "loop" /\ pc[c] # "loop"
                 => /\ pc[c] \in {"accepting", "sleeping", "backoff"}
                    /\ running = "none" /\ running' = c
          /\ pc'[c] \in {"sleeping", "backoff"} /\ pc[c] # pc'[c]
                 => running' = "none"
          /\ pc[c] \in {"sleeping", "backoff"} => running # c]_vars

\* A session whose first snapshot was sent is suspended in a sleep of 0
\* seconds, with collections still to come.
C34_Witness ==
    \E c \in Sessions :
        /\ pc[c] = "sleeping"
        /\ loc[c].sleep_time = 0
        /\ session[c].started = 1
        /\ running = "none"
        /\ collects < env.max_collects

====
